---------------------------- MODULE Spec2Model ----------------------------
(***************************************************************************)
(* Model of the recipe assistant "Meine Rezepte".                          *)
(*                                                                         *)
(* Part I   retryWithBackoff (src/unnamed/part_000, lines 140-154).        *)
(* Part II  the recipe store and the recipe card of src/unnamed/part_000   *)
(*          (generate -> display -> save, remove, servings input).         *)
(* Part III the recipe card of "src/meine-rezepte-for-you! (1)/index.tsx"  *)
(*          (servings +/- buttons, save, edit-and-save, cancel-edit).      *)
(* Part IV  the shopping list of src/unnamed/part_000.                     *)
(* Part V   calls of the exported store functions of both files, on a      *)
(*          storage that may hold an unparseable item and may be full.     *)
(* Part VI  the page of part_000 with cookbook and shopping list.          *)
(* Part VII the draft of the recipe form, in both files.                   *)
(*                                                                         *)
(* Each part has its own specification; the variables of the other parts   *)
(* stay at their initial values under it.                                  *)
(***************************************************************************)
EXTENDS Integers, Sequences, FiniteSets, TLC

VARIABLES
    \* ---- Part I: one run of retryWithBackoff
    maxRetries,   \* the maxRetries argument
    pc,           \* "Idle" | "Attempting" | "RetryWait" | "Success" | "Failed"
    i,            \* the loop counter i
    delay,        \* the local delay
    trace,        \* what the run did so far: operation calls and scheduled waits
    result,       \* what the returned promise settled with
    \* ---- Part II: the page of src/unnamed/part_000
    savedBlob,               \* localStorage item 'savedRecipes'
    savedListDom,            \* the cards rendered into saved-recipes-list
    currentDisplayedRecipe,  \* the recipe of the card in recipe-output
    badge,                   \* saved-count-badge: its text and its hidden class
    pending,                 \* generate requests in flight
    loaderHidden,            \* loading-overlay carries the class hidden
    lastCall,                \* the last store call: its input and what it answered
    inputs,                  \* the names, ids and clock values this run draws from
    \* ---- Part III: the page of "meine-rezepte-for-you! (1)/index.tsx"
    tsxSavedBlob,            \* localStorage item 'savedRecipes'
    currentRecipe,           \* the module variable currentRecipe
    originalRecipeForUpdate, \* the recipe renderRecipe was last called with
    card,                    \* recipe-output: "none" | "display" | "edit"
    saveBtnDisabled,         \* save-recipe-btn is disabled
    servingsCountSpan,       \* text of servings-count
    ingredientsListUl,       \* the lines shown in ingredients-list
    savedModalOpen,          \* saved-recipes-modal is shown
    tsxBadge,                \* saved-count-badge: its text and its hidden class
    request,                 \* the generate request in flight, if any
    edits,                   \* how many times save-edit-btn has saved
    \* ---- Part IV: the shopping list of src/unnamed/part_000
    shoppingBlob,            \* localStorage item 'shoppingList'
    shoppingListDom,         \* the items rendered into shopping-list-content
    listCall,                \* the last shopping-list call and what it did
    \* ---- Part V: calls of the exported store functions
    apiCall,                 \* the last call: what it was given and what came of it
    \* ---- Part VII: the draft of the recipe form
    draftBlob,               \* part_000: the localStorage item 'recipeDraft'
    draftNotificationHidden, \* part_000: draftNotification has class hidden
    tsxDraftBlob,            \* index.tsx: the localStorage item 'recipeDraft'
    tsxDraftNotificationHidden, \* index.tsx: draftNotification has class hidden
    draftCall,               \* the last handler that may touch a draft, and its inputs
    \* ---- Part VIII: calls of scaleIngredientLine
    scaleCall,               \* the arguments of the call and what it returned
    \* ---- Part IX: the recipe card of part_000 and its servings field
    recipeOutput,            \* recipe-output: "none" | "card"
    activeIngList,           \* the lines shown in active-ing-list
    servingsDisplay,         \* text of servings-display
    servingsCall             \* the last 'input' event of servings-input

retryVars == <<maxRetries, pc, i, delay, trace, result>>

appVars ==
    <<savedBlob, savedListDom, currentDisplayedRecipe, badge, pending,
      loaderHidden, lastCall, inputs>>

tsxVars ==
    <<tsxSavedBlob, currentRecipe, originalRecipeForUpdate, card,
      saveBtnDisabled, servingsCountSpan, ingredientsListUl, savedModalOpen,
      tsxBadge, request, edits>>

listVars == <<shoppingBlob, shoppingListDom, listCall>>

apiVars == <<apiCall>>

draftVars == <<draftBlob, draftNotificationHidden>>

tsxDraftVars == <<tsxDraftBlob, tsxDraftNotificationHidden>>

scaleVars == <<scaleCall>>

cardVars == <<recipeOutput, activeIngList, servingsDisplay>>

\* The variables of Part VIII and later.
restVars == <<scaleVars, cardVars, servingsCall>>

vars == <<retryVars, appVars, tsxVars, listVars, apiVars, draftVars,
          tsxDraftVars, draftCall, restVars>>

\* What the steps of each part leave alone.
outsideRetry ==
    <<appVars, tsxVars, listVars, apiVars, draftVars, tsxDraftVars, draftCall,
      restVars>>
outsideApp ==
    <<retryVars, tsxVars, listVars, apiVars, draftVars, tsxDraftVars, draftCall,
      restVars>>
outsideTsx ==
    <<retryVars, appVars, listVars, apiVars, draftVars, tsxDraftVars, draftCall,
      restVars>>
outsideList ==
    <<retryVars, appVars, tsxVars, apiVars, draftVars, tsxDraftVars, draftCall,
      restVars>>
outsideStores ==
    <<retryVars, listVars, draftVars, tsxDraftVars, draftCall, restVars>>
\* What the generate handlers of the two pages leave alone.
outsideGenerate ==
    <<retryVars, tsxVars, listVars, apiVars, tsxDraftVars, restVars>>
\* What a handler of part_000 that calls renderRecipeOutput leaves alone.
outsideRender ==
    <<retryVars, tsxVars, listVars, apiVars, tsxDraftVars, scaleVars,
      servingsCall>>
outsideTsxGenerate ==
    <<retryVars, appVars, listVars, apiVars, draftVars, restVars>>


(***************************************************************************)
(* Values shared by the parts.                                             *)
(***************************************************************************)

\* JavaScript's undefined in a numeric field (servings, createdAt).
Undef == -1
\* JavaScript's undefined in the id field.
NoId == "undefined"

\* null / no recipe
NoRecipe ==
    [id |-> NoId, recipeName |-> "", servings |-> Undef, ingredients |-> <<>>,
     createdAt |-> Undef]

\* A localStorage item: absent, or a string that JSON.parse rejects, or the
\* JSON text of an array (items is the array it parses to).
AbsentBlob == [kind |-> "absent", items |-> <<>>]
CorruptBlob == [kind |-> "corrupt", items |-> <<>>]
JsonBlob(items) == [kind |-> "json", items |-> items]

\* No input is drawn.
NoInputs == [names |-> {}]

NoCall ==
    [op |-> "none", arg |-> NoRecipe, asked |-> FALSE, answer |-> FALSE,
     ret |-> FALSE, wrote |-> FALSE]

\* The page of part_000 as it is after init() on an empty localStorage, at
\* rest under the specifications of the other parts.
AppQuiet ==
    /\ savedBlob = AbsentBlob
    /\ savedListDom = <<>>
    /\ currentDisplayedRecipe = NoRecipe
    /\ badge = [text |-> "", hidden |-> TRUE]
    /\ pending = 0
    /\ loaderHidden = TRUE
    /\ lastCall = NoCall

NoListCall ==
    [op |-> "none", items |-> <<>>, id |-> NoId, found |-> FALSE,
     wrote |-> FALSE, tick |-> 0]

\* The shopping list of part_000 on an empty localStorage, at rest under the
\* specifications of the other parts.
ListQuiet ==
    /\ shoppingBlob = AbsentBlob
    /\ shoppingListDom = <<>>
    /\ listCall = NoListCall

\* No exported store function has been called.
NoApiCall ==
    [file |-> "none", op |-> "none", name |-> "", ret |-> "none",
     thrown |-> "none", alert |-> "none", kind |-> "none"]

ApiQuiet == apiCall = NoApiCall

\* The item 'recipeDraft': absent, or the JSON text of a draft.  The texts of
\* the prompt and of the servings field are sequences of characters; the
\* draft of index.tsx holds servings as a number.
AbsentDraft ==
    [kind |-> "absent", prompt |-> <<>>, difficulty |-> "",
     servings |-> <<>>, wishes |-> ""]
TsxAbsentDraft ==
    [kind |-> "absent", prompt |-> <<>>, difficulty |-> "",
     servings |-> Undef, wishes |-> ""]

\* logged is what the handler pushed to QA_LOGS, toasts what it handed to
\* showToast.
NoDraftCall ==
    [file |-> "none", op |-> "none", reply |-> "none", ret |-> "none",
     prompt |-> <<>>, difficulty |-> "", servings |-> <<>>, wishes |-> "",
     logged |-> <<>>, toasts |-> <<>>]

\* No draft is stored and none was.
DraftQuiet ==
    /\ draftBlob = AbsentDraft
    /\ draftNotificationHidden = TRUE
    /\ tsxDraftBlob = TsxAbsentDraft
    /\ tsxDraftNotificationHidden = TRUE
    /\ draftCall = NoDraftCall

\* A recipe of index.tsx: the fields the card and the store logic read.
\* madeFor is not a field of the program: it records the serving count the
\* reply of the AI service was written for.
NoTsxRecipe ==
    [recipeName |-> "", servings |-> Undef, ingredients |-> <<>>,
     madeFor |-> Undef]

NoRequest == [sent |-> FALSE, servings |-> Undef]

\* The page of index.tsx as it is after initializeApp() on an empty
\* localStorage, at rest under the specifications of the other parts.
TsxQuiet ==
    /\ tsxSavedBlob = AbsentBlob
    /\ currentRecipe = NoTsxRecipe
    /\ originalRecipeForUpdate = NoTsxRecipe
    /\ card = "none"
    /\ saveBtnDisabled = FALSE
    /\ servingsCountSpan = Undef
    /\ ingredientsListUl = <<>>
    /\ savedModalOpen = FALSE
    /\ tsxBadge = [text |-> "", hidden |-> TRUE]
    /\ request = NoRequest
    /\ edits = 0

\* No call of scaleIngredientLine has been made.
NoScaleCall ==
    [line |-> <<>>, fromS |-> Undef, toS |-> Undef, done |-> {},
     out |-> <<>>, back |-> <<>>, tsxOut |-> <<>>]

ScaleQuiet == scaleCall = NoScaleCall

\* No 'input' event of servings-input has been handled.
NoServingsCall == [value |-> <<>>, tick |-> 0]

\* recipe-output of part_000 holds no card, as init() leaves it.
CardQuiet ==
    /\ recipeOutput = "none"
    /\ activeIngList = <<>>
    /\ servingsDisplay = Undef

\* Parts VIII and later at rest.
RestQuiet ==
    /\ ScaleQuiet
    /\ CardQuiet
    /\ servingsCall = NoServingsCall

(***************************************************************************)
(* Part I.  retryWithBackoff                                               *)
(***************************************************************************)

\* Largest maxRetries argument explored.
MaxRetriesBound == 4

DefaultMaxRetries == 3
InitialDelay == 3000
BackoffFactor == 2

\* Text is a sequence of fragments; the fragments are cut so that the two
\* patterns the code searches for, "429" and "Quota", are fragments of their
\* own wherever they occur.  String.prototype.includes is case-sensitive.
Includes(text, pattern) == \E k \in 1..Len(text) : text[k] = pattern

\* A rejection value: message is error.message (<<>> when it is empty or the
\* value has no message property), str is String(error).
NoError == [message |-> <<>>, str |-> <<>>]

ErrHttp429 ==
    [message |-> <<"got status: ", "429", " Too Many Requests">>,
     str |-> <<"ApiError: ", "got status: ", "429", " Too Many Requests">>]
ErrQuota ==
    [message |-> <<"Quota", " exceeded for model">>,
     str |-> <<"Error: ", "Quota", " exceeded for model">>]
ErrNetwork ==
    [message |-> <<"Failed to fetch">>,
     str |-> <<"TypeError: ", "Failed to fetch">>]
ErrLowerQuota ==
    [message |-> <<"daily quota used up">>,
     str |-> <<"Error: ", "daily quota used up">>]
\* throw "429": a string has no message property
ErrThrownString == [message |-> <<>>, str |-> <<"429">>]
\* an error object with an empty message, named QuotaExceededError
ErrEmptyMsgQuotaName == [message |-> <<>>, str |-> <<"Quota", "ExceededError">>]
\* new Error("")
ErrEmptyMsg == [message |-> <<>>, str |-> <<"Error">>]
\* a non-empty message under a name that contains "Quota"
ErrQuotaNameOnly ==
    [message |-> <<"disk is full">>,
     str |-> <<"Quota", "ExceededError: ", "disk is full">>]

Errors ==
    {ErrHttp429, ErrQuota, ErrNetwork, ErrLowerQuota, ErrThrownString,
     ErrEmptyMsgQuotaName, ErrEmptyMsg, ErrQuotaNameOnly}

\* throw new Error("Server-Limit erreicht.")
ServerLimitError ==
    [message |-> <<"Server-Limit erreicht.">>,
     str |-> <<"Error: ", "Server-Limit erreicht.">>]

\* What the operation may resolve with.
Values == {"recipe", "scan"}

\* const errorStr = error?.message || String(error);
ErrorStr(error) == IF error.message # <<>> THEN error.message ELSE error.str

IsRateLimitAnyError(error) == TRUE

\* const isRateLimit = errorStr.includes("429") || errorStr.includes("Quota");
IsRateLimit(error) ==
    Includes(ErrorStr(error), "429") \/ Includes(ErrorStr(error), "Quota")

AttemptsRemainOffByOne(idx, max) == idx < max

\* i < maxRetries - 1
AttemptsRemain(idx, max) == idx < max - 1

NextDelayConstant(d) == d

\* delay *= 2
NextDelay(d) == d * BackoffFactor

\* Entries of trace.
CallEvent(ok, val, err) ==
    [ev |-> "call", ms |-> 0, ok |-> ok, val |-> val, err |-> err]
WaitEvent(ms) ==
    [ev |-> "wait", ms |-> ms, ok |-> FALSE, val |-> "none", err |-> NoError]

NoResult == [kind |-> "none", val |-> "none", err |-> NoError]
Returned(val) == [kind |-> "value", val |-> val, err |-> NoError]
Thrown(err) == [kind |-> "error", val |-> "none", err |-> err]

RetryInit ==
    /\ RestQuiet
    /\ maxRetries \in 0..MaxRetriesBound
    /\ pc = "Idle"
    /\ i = 0
    /\ delay = 0
    /\ trace = <<>>
    /\ result = NoResult
    /\ AppQuiet
    /\ inputs = NoInputs
    /\ TsxQuiet
    /\ ListQuiet
    /\ ApiQuiet
    /\ DraftQuiet

\* The call: let delay = 3000; for (let i = 0; ...
Call ==
    /\ pc = "Idle"
    /\ pc' = "Attempting"
    /\ delay' = InitialDelay
    /\ i' = 0
    /\ UNCHANGED <<maxRetries, trace, result, outsideRetry>>

\* The loop condition i < maxRetries is false: the throw after the loop.
LoopExit ==
    /\ pc = "Attempting"
    /\ ~(i < maxRetries)
    /\ pc' = "Failed"
    /\ result' = Thrown(ServerLimitError)
    /\ UNCHANGED <<maxRetries, i, delay, trace, outsideRetry>>

\* try { return await operation(); } with the operation resolving.
OperationResolves ==
    /\ pc = "Attempting"
    /\ i < maxRetries
    /\ \E v \in Values :
          /\ trace' = Append(trace, CallEvent(TRUE, v, NoError))
          /\ result' = Returned(v)
    /\ pc' = "Success"
    /\ UNCHANGED <<maxRetries, i, delay, outsideRetry>>

\* The catch block, with the operation rejecting.
OperationRejects ==
    /\ pc = "Attempting"
    /\ i < maxRetries
    /\ \E error \in Errors :
          IF IsRateLimit(error) /\ AttemptsRemain(i, maxRetries)
          THEN \* await new Promise(res => setTimeout(res, delay));
               /\ trace' = trace \o <<CallEvent(FALSE, "none", error),
                                      WaitEvent(delay)>>
               /\ pc' = "RetryWait"
               /\ UNCHANGED result
          ELSE \* throw error;
               /\ trace' = Append(trace, CallEvent(FALSE, "none", error))
               /\ pc' = "Failed"
               /\ result' = Thrown(error)
    /\ UNCHANGED <<maxRetries, i, delay, outsideRetry>>

\* The timer fires: delay *= 2; continue; (and the loop's i++).
TimerFires ==
    /\ pc = "RetryWait"
    /\ delay' = NextDelay(delay)
    /\ i' = i + 1
    /\ pc' = "Attempting"
    /\ UNCHANGED <<maxRetries, trace, result, outsideRetry>>

RetryNext ==
    \/ Call
    \/ LoopExit
    \/ OperationResolves
    \/ OperationRejects
    \/ TimerFires

RetrySpec == RetryInit /\ [][RetryNext]_vars

\* Every operation call settles and every timer fires.
FairRetrySpec == RetrySpec /\ WF_vars(RetryNext)

\* No run of retryWithBackoff under way, under the other specifications.
RetryQuiet ==
    /\ maxRetries = DefaultMaxRetries
    /\ pc = "Idle"
    /\ i = 0
    /\ delay = 0
    /\ trace = <<>>
    /\ result = NoResult

(***************************************************************************)
(* Part I, properties.                                                     *)
(***************************************************************************)

\* The operation calls of a trace, in order.
Calls(tr) == SelectSeq(tr, LAMBDA e : e.ev = "call")

Terminal == {"Success", "Failed"}

\* The text the code searches holds "429" or "Quota": the message, or the
\* string form of the value when the message is empty or missing.
SearchedTextHasRateLimitMark(error) ==
    LET text == IF error.message # <<>> THEN error.message ELSE error.str
    IN  Includes(text, "429") \/ Includes(text, "Quota")

MessageHasRateLimitMark(error) ==
    Includes(error.message, "429") \/ Includes(error.message, "Quota")

RateLimitFailure(e) == e.ev = "call" /\ ~e.ok /\ SearchedTextHasRateLimitMark(e.err)

\* C1: with maxRetries = 3 and an operation that fails with a rate-limit error
\* on its first two invocations and succeeds on the third, the run is still
\* pending after each of the two failures, and once the third invocation has
\* succeeded it has returned that value after exactly three invocations, with
\* a wait of 3000 ms scheduled before the second and of 6000 ms before the
\* third invocation.
C1_TwoRateLimitsThenSuccess ==
    LET calls == Calls(trace) IN
    (/\ maxRetries = DefaultMaxRetries
     /\ Len(calls) >= 2
     /\ RateLimitFailure(calls[1])
     /\ RateLimitFailure(calls[2]))
    => /\ Len(calls) = 2 => pc \in {"RetryWait", "Attempting"} /\ result = NoResult
       /\ (Len(calls) >= 3 /\ calls[3].ok) =>
             /\ pc = "Success"
             /\ result = Returned(calls[3].val)
             /\ trace = <<calls[1], WaitEvent(3000), calls[2], WaitEvent(6000),
                          calls[3]>>

C1_Witness ==
    /\ maxRetries = DefaultMaxRetries
    /\ pc = "Success"
    /\ Len(Calls(trace)) = 3
    /\ RateLimitFailure(trace[1])

\* C2 (as stated): a failure whose error message contains neither "429" nor
\* "Quota" is the last thing the run does: the run has failed with that same
\* error, and no wait and no further invocation follow it.
C2_MessageWithoutMarkIsRethrown ==
    \A k \in 1..Len(trace) :
        (trace[k].ev = "call" /\ ~trace[k].ok
            /\ ~MessageHasRateLimitMark(trace[k].err))
        => (k = Len(trace) /\ pc = "Failed" /\ result = Thrown(trace[k].err))

\* C2 (amended): a failure for which the text the code searches (the error's
\* message or, when that is empty or missing, the string form of the value)
\* contains neither "429" nor "Quota" is the last thing the run does: the run
\* has failed with that same error, and no wait and no further invocation
\* follow it, whatever attempt it was.
C2_SearchedTextWithoutMarkIsRethrown ==
    \A k \in 1..Len(trace) :
        (trace[k].ev = "call" /\ ~trace[k].ok
            /\ ~SearchedTextHasRateLimitMark(trace[k].err))
        => (k = Len(trace) /\ pc = "Failed" /\ result = Thrown(trace[k].err))

C2_Witness ==
    /\ pc = "Failed"
    /\ Len(Calls(trace)) >= 2
    /\ trace[Len(trace)].ev = "call"
    /\ ~SearchedTextHasRateLimitMark(trace[Len(trace)].err)
    /\ result = Thrown(trace[Len(trace)].err)

\* C3: when maxRetries >= 1 and all maxRetries invocations have failed with a
\* rate-limit error, the run has failed with the "Server-Limit erreicht."
\* error.
C3_ExhaustionRaisesServerLimit ==
    LET calls == Calls(trace) IN
    (/\ maxRetries >= 1
     /\ Len(calls) = maxRetries
     /\ \A k \in 1..Len(calls) : RateLimitFailure(calls[k]))
    => (pc = "Failed" /\ result = Thrown(ServerLimitError))

\* C4: a run moves Idle -> Attempting -> {Success | RetryWait -> Attempting |
\* Failed}; it invokes the operation at most maxRetries times; it enters
\* RetryWait only right after a rate-limit failure that leaves attempts
\* remaining; nothing changes after Success or Failed; and, every operation
\* call and timer completing, it reaches Success or Failed.
C4_StateMachine ==
    /\ [](Len(Calls(trace)) <= maxRetries)
    /\ [][/\ pc = "Idle" => pc' = "Attempting"
          /\ pc = "Attempting" => pc' \in {"Success", "RetryWait", "Failed"}
          /\ pc = "RetryWait" => pc' = "Attempting"
          /\ pc \notin Terminal
          /\ pc' = "RetryWait" =>
                /\ Len(trace') >= 2
                /\ RateLimitFailure(trace'[Len(trace') - 1])
                /\ trace'[Len(trace')].ev = "wait"
                /\ Len(Calls(trace')) < maxRetries]_vars
    /\ <>(pc \in Terminal)

C4_Witness ==
    /\ pc = "Failed"
    /\ Len(Calls(trace)) = maxRetries
    /\ maxRetries >= 2
    /\ Len(trace) > maxRetries

(***************************************************************************)
(* Part II.  The page of src/unnamed/part_000: generate -> display -> save, *)
(* the saved-recipes list and its delete buttons.                          *)
(*                                                                         *)
(* A recipe is the record of the fields the store logic and the scaling    *)
(* read: id, recipeName, servings, ingredients, createdAt.  JSON.stringify *)
(* followed by JSON.parse keeps these values as they are (a field that is  *)
(* undefined is dropped and reads back as undefined).                      *)
(***************************************************************************)

\* Generate requests that may be in flight at once (the button stays enabled).
MaxPending == 1

\* What a run draws from: the recipe names the AI service may answer with,
\* the values of Math.random().toString(36).substr(2, 9), and the values of
\* Date.now() (a wall clock: it need not grow).  A run with three names, two
\* of them equal up to letter case, and runs with two ids or two clock
\* values.
InputSets ==
    {[names |-> {"Pasta", "pasta", "Suppe"}, ids |-> {"k3j9x0a1b"},
      times |-> {1000}, replies |-> {"recipe", "error"}],
     [names |-> {"Pasta", "Suppe"}, ids |-> {"k3j9x0a1b", "q81ztw5mc"},
      times |-> {1000}, replies |-> {"recipe", "error"}],
     [names |-> {"Pasta", "Suppe"}, ids |-> {"k3j9x0a1b"},
      times |-> {1000, 2000}, replies |-> {"recipe", "error"}]}

\* String.prototype.toLowerCase
ToLowerCase(name) ==
    CASE name = "Pasta" -> "pasta"
      [] name = "Suppe" -> "suppe"
      [] OTHER -> name

\* The value of prompt-input when the generate button is clicked.
PromptValues == {"", "Pasta"}

\* Ingredient lines are sequences of characters.
Line500gNudeln == <<"5", "0", "0", "g", " ", "N", "u", "d", "e", "l", "n">>
LineSalz == <<"S", "a", "l", "z">>

\* JSON.parse(response.text) of a reply that follows recipeSchema: the schema
\* has no id, no servings and no createdAt.
GeneratedRecipes ==
    {[id |-> NoId, recipeName |-> n, servings |-> Undef,
      ingredients |-> <<Line500gNudeln, LineSalz>>, createdAt |-> Undef] :
        n \in inputs.names}

\* JSON.parse("{}"): an object without any field of a recipe.
EmptyObject ==
    [id |-> NoId, recipeName |-> "undefined", servings |-> Undef,
     ingredients |-> <<>>, createdAt |-> Undef]

CallChefNullForEmpty(reply) ==
    IF reply = "recipe" THEN GeneratedRecipes ELSE {NoRecipe}

\* callChef({type: 'generate', ...}): what it may return (NoRecipe for null)
\* when the service answers with JSON text that follows recipeSchema, with
\* no text, with text that is not JSON, with an error that is no rate
\* limit, or with rate-limit errors on every attempt (retryWithBackoff
\* rejects in both cases, Part I).
\* return JSON.parse(response.text || "{}"), and null from the catch block
CallChef(reply) ==
    CASE reply = "recipe" -> GeneratedRecipes
      [] reply = "empty" -> {EmptyObject}
      [] reply = "malformed" -> {NoRecipe}
      [] reply = "error" -> {NoRecipe}
      [] reply = "rateLimited" -> {NoRecipe}

\* the try block of callChef throws: JSON.parse does, or retryWithBackoff
\* rejects
CallChefCatches(reply) == reply \in {"malformed", "error", "rateLimited"}

CallChefLogsOnlyRejections(reply) ==
    IF reply \in {"error", "rateLimited"} THEN <<"AI_EXCEPTION">> ELSE <<>>

\* logAction('AI_EXCEPTION', ...) in the catch block: what callChef pushes
\* to QA_LOGS after AI_REQUEST_START
CallChefLogs(reply) ==
    IF CallChefCatches(reply) THEN <<"AI_EXCEPTION">> ELSE <<>>

ToastChefError == [msg |-> "Fehler bei der KI-Anfrage.", type |-> "error"]

\* showToast("Fehler bei der KI-Anfrage.", "error") in the catch block
CallChefToasts(reply) ==
    IF CallChefCatches(reply) THEN <<ToastChefError>> ELSE <<>>

\* renderRecipeOutput(r) throws at r.ingredients.map, after it has assigned
\* currentDisplayedRecipe and before it assigns out.innerHTML
RenderRecipeOutputThrows(r) == r = EmptyObject

\* renderRecipeOutput(r): currentDisplayedRecipe is assigned first, the card
\* is written when the template could be evaluated; servings-display shows
\* r.servings and active-ing-list the lines of r.ingredients
RenderRecipeOutput(r) ==
    /\ currentDisplayedRecipe' = r
    /\ IF RenderRecipeOutputThrows(r)
       THEN UNCHANGED cardVars
       ELSE /\ recipeOutput' = "card"
            /\ activeIngList' = r.ingredients
            /\ servingsDisplay' = r.servings

\* getSavedRecipes: data ? JSON.parse(data) : [], and [] when parse throws
GetSavedRecipes(blob) == IF blob.kind = "json" THEN blob.items ELSE <<>>

NameEqualsIgnoringCase(a, b) == ToLowerCase(a) = ToLowerCase(b)

\* sr.recipeName === r.recipeName
SaveNameMatch(a, b) == a = b

\* saved.some(sr => sr.recipeName === r.recipeName)
SomeMatch(saved, r) ==
    \E k \in 1..Len(saved) : SaveNameMatch(saved[k].recipeName, r.recipeName)

\* saved.findIndex(sr => sr.recipeName === r.recipeName)
FindIndex(saved, r) ==
    CHOOSE k \in 1..Len(saved) :
        /\ SaveNameMatch(saved[k].recipeName, r.recipeName)
        /\ \A j \in 1..(k - 1) :
              ~SaveNameMatch(saved[j].recipeName, r.recipeName)

OverwriteByMovingToEnd(saved, index, r) ==
    Append(SelectSeq(saved, LAMBDA sr : sr # saved[index]), r)

\* saved[index] = r
Overwrite(saved, index, r) == [saved EXCEPT ![index] = r]

RefusedSaveStillWrites(blob, r) ==
    [blob |-> JsonBlob(Append(GetSavedRecipes(blob), r)), ret |-> FALSE,
     asked |-> TRUE, wrote |-> TRUE]

\* if (!confirm("Überschreiben?")) return false;
RefusedSave(blob, r) ==
    [blob |-> blob, ret |-> FALSE, asked |-> TRUE, wrote |-> FALSE]

SaveRecipeToStorageFromRenderedList(blob, r, answer) ==
    IF SomeMatch(savedListDom, r)
    THEN IF ~answer
         THEN RefusedSave(blob, r)
         ELSE [blob |-> JsonBlob(Overwrite(savedListDom,
                                           FindIndex(savedListDom, r), r)),
               ret |-> TRUE, asked |-> TRUE, wrote |-> TRUE]
    ELSE [blob |-> JsonBlob(Append(savedListDom, r)),
          ret |-> TRUE, asked |-> FALSE, wrote |-> TRUE]

\* saveRecipeToStorage(r), with the answer the user gives should confirm() be
\* called: the item afterwards, the value returned, whether confirm() was
\* called and whether setItem was.
SaveRecipeToStorage(blob, r, answer) ==
    LET saved == GetSavedRecipes(blob) IN
    IF SomeMatch(saved, r)
    THEN IF ~answer
         THEN RefusedSave(blob, r)
         ELSE [blob |-> JsonBlob(Overwrite(saved, FindIndex(saved, r), r)),
               ret |-> TRUE, asked |-> TRUE, wrote |-> TRUE]
    ELSE [blob |-> JsonBlob(Append(saved, r)),
          ret |-> TRUE, asked |-> FALSE, wrote |-> TRUE]

\* removeRecipeFromStorage(name): the item afterwards
RemoveRecipeFromStorage(blob, name) ==
    JsonBlob(SelectSeq(GetSavedRecipes(blob),
                       LAMBDA r : ToLowerCase(r.recipeName) # ToLowerCase(name)))

SavedCountBadgeNeverHidden(blob) ==
    [text |-> ToString(Len(GetSavedRecipes(blob))), hidden |-> FALSE]

\* updateSavedCount: the badge for the stored collection
SavedCountBadge(blob) ==
    LET n == Len(GetSavedRecipes(blob)) IN
    [text |-> IF n # 0 THEN ToString(n) ELSE "", hidden |-> n = 0]

SaveButtonKeepsRecipe(r, newId, now) == r

\* { ...r, id: r.id || Math.random().toString(36).substr(2, 9),
\*   createdAt: Date.now() }
SaveButtonRecipe(r, newId, now) ==
    [r EXCEPT !.id = IF r.id # NoId THEN r.id ELSE newId, !.createdAt = now]

AppInit ==
    /\ RestQuiet
    /\ savedBlob = AbsentBlob
    /\ savedListDom = <<>>
    /\ currentDisplayedRecipe = NoRecipe
    /\ badge = SavedCountBadge(AbsentBlob)
    /\ pending = 0
    /\ loaderHidden = TRUE
    /\ lastCall = NoCall
    /\ inputs \in InputSets
    /\ RetryQuiet
    /\ TsxQuiet
    /\ ListQuiet
    /\ ApiQuiet
    /\ DraftQuiet

\* btn-generate click up to the await: a prompt is there, startLoading, and
\* the request leaves.
GenerateClick ==
    /\ pending < MaxPending
    /\ \E p \in PromptValues : p # ""
    /\ pending' = pending + 1
    /\ loaderHidden' = FALSE
    /\ lastCall' = NoCall
    /\ draftCall' = [NoDraftCall EXCEPT !.file = "part_000", !.op = "request",
                                        !.logged = <<"AI_REQUEST_START">>]
    /\ UNCHANGED <<savedBlob, savedListDom, currentDisplayedRecipe, badge,
                   inputs, draftVars, outsideGenerate>>

\* btn-generate after the await: stopLoading, and when callChef gave
\* something that is not null, renderRecipeOutput and then clearDraft; a
\* throw of renderRecipeOutput ends the handler.
GenerateCompletes ==
    /\ pending > 0
    /\ pending' = pending - 1
    /\ loaderHidden' = TRUE
    /\ \E reply \in inputs.replies :
        \E recipe \in CallChef(reply) :
          /\ IF recipe # NoRecipe
             THEN RenderRecipeOutput(recipe)
             ELSE UNCHANGED <<currentDisplayedRecipe, cardVars>>
          /\ IF recipe # NoRecipe /\ ~RenderRecipeOutputThrows(recipe)
             THEN /\ draftBlob' = AbsentDraft
                  /\ draftNotificationHidden' = TRUE
             ELSE UNCHANGED draftVars
          /\ draftCall' = [NoDraftCall EXCEPT
                              !.file = "part_000", !.op = "generate",
                              !.reply = reply,
                              !.ret = CASE recipe = NoRecipe -> "null"
                                        [] recipe = EmptyObject -> "object"
                                        [] OTHER -> "recipe",
                              !.logged = CallChefLogs(reply),
                              !.toasts = CallChefToasts(reply)]
    /\ lastCall' = NoCall
    /\ UNCHANGED <<savedBlob, savedListDom, badge, inputs, outsideRender>>

\* save-recipe-btn click
SaveClick ==
    /\ currentDisplayedRecipe # NoRecipe
    /\ \E newId \in inputs.ids, now \in inputs.times, answer \in BOOLEAN :
          LET r == SaveButtonRecipe(currentDisplayedRecipe, newId, now)
              done == SaveRecipeToStorage(savedBlob, r, answer)
          IN  /\ savedBlob' = done.blob
              /\ badge' = IF done.ret THEN SavedCountBadge(done.blob) ELSE badge
              /\ lastCall' = [op |-> "save", arg |-> r, asked |-> done.asked,
                              answer |-> done.asked /\ answer,
                              ret |-> done.ret, wrote |-> done.wrote]
    /\ UNCHANGED <<savedListDom, currentDisplayedRecipe, pending,
                   loaderHidden, inputs, outsideApp>>

\* nav-btn click for tab-book: renderSavedRecipes
BookTabClick ==
    /\ savedListDom' = GetSavedRecipes(savedBlob)
    /\ lastCall' = NoCall
    /\ UNCHANGED <<savedBlob, currentDisplayedRecipe, badge, pending,
                   loaderHidden, inputs, outsideApp>>

\* click on a card of the saved-recipes list: renderRecipeOutput(r)
CardClick ==
    /\ \E k \in 1..Len(savedListDom) : RenderRecipeOutput(savedListDom[k])
    /\ lastCall' = NoCall
    /\ UNCHANGED <<savedBlob, savedListDom, badge, pending, loaderHidden,
                   inputs, draftVars, draftCall, outsideRender>>

\* click on a card's delete button:
\* if (confirm("Löschen?")) removeRecipeFromStorage(r.recipeName)
DeleteClick ==
    /\ \E k \in 1..Len(savedListDom), answer \in BOOLEAN :
          LET name == savedListDom[k].recipeName
              after == RemoveRecipeFromStorage(savedBlob, name)
          IN  IF answer
              THEN /\ savedBlob' = after
                   /\ badge' = SavedCountBadge(after)
                   /\ savedListDom' = GetSavedRecipes(after)
                   /\ lastCall' = [op |-> "remove",
                                   arg |-> [NoRecipe EXCEPT !.recipeName = name],
                                   asked |-> TRUE, answer |-> TRUE,
                                   ret |-> FALSE, wrote |-> TRUE]
              ELSE /\ lastCall' = NoCall
                   /\ UNCHANGED <<savedBlob, badge, savedListDom>>
    /\ UNCHANGED <<currentDisplayedRecipe, pending, loaderHidden, inputs,
                   outsideApp>>

StoreNext ==
    \/ GenerateClick
    \/ GenerateCompletes
    \/ SaveClick
    \/ BookTabClick
    \/ CardClick
    \/ DeleteClick

StoreSpec == AppInit /\ [][StoreNext]_vars

(***************************************************************************)
(* Part II, properties.  A step whose lastCall' names a save is a click on *)
(* the save button; saved is the collection before it, saved' after it.    *)
(***************************************************************************)

Saved == GetSavedRecipes(savedBlob)

\* C5: no two recipes stored under 'savedRecipes' have names that are equal
\* under case-insensitive comparison.
C5_NamesUniqueIgnoringCase ==
    \A j, k \in 1..Len(Saved) :
        j # k => ~NameEqualsIgnoringCase(Saved[j].recipeName, Saved[k].recipeName)

C8_IdAndCreatedAtFixedAtFirstSave ==
    [][lastCall'.op = "save" =>
          \A j \in 1..Len(Saved), k \in 1..Len(Saved') :
              Saved[j].recipeName = Saved'[k].recipeName
              => /\ Saved'[k].id = Saved[j].id
                 /\ Saved'[k].createdAt = Saved[j].createdAt]_vars

\* C10: every stored recipe has a servings field that is a positive integer.
C10_StoredServingsPositive ==
    \A k \in 1..Len(Saved) : Saved[k].servings # Undef /\ Saved[k].servings >= 1


(***************************************************************************)
(* Part III.  The recipe card of index.tsx: servings, edit, save           *)
(***************************************************************************)

\* The largest serving count the + button is pressed up to.
MaxServings == 3

\* The most saves of the edit form in one run.
MaxEdits == 1

\* What a run draws its inputs from: the names the AI service answers with
\* and the user types into edit-recipe-name, and the contents of
\* servings-input when the form is submitted.
TsxInputSets ==
    {[names |-> {"Pasta"}, servingsTexts |-> {<<>>, <<"4">>}],
     [names |-> {"Pasta", "Suppe"}, servingsTexts |-> {<<"2">>}]}

Line2Eier == <<"2", " ", "E", "i", "e", "r">>
Line500gMehl == <<"5", "0", "0", "g", " ", "M", "e", "h", "l">>

\* The ingredients of a reply of the AI service.
ReplyIngredients == <<Line2Eier, Line500gMehl>>

Digits == <<"0", "1", "2", "3", "4", "5", "6", "7", "8", "9">>

\* \d
IsDigit(c) == \E d \in 1..10 : Digits[d] = c

DigitValue(c) == (CHOOSE d \in 1..10 : Digits[d] = c) - 1

\* \s
IsSpace(c) == c = " "

RECURSIVE DigitPrefixLen(_)
\* the length of the longest prefix of s made of digits
DigitPrefixLen(s) ==
    IF s = <<>> \/ ~IsDigit(Head(s)) THEN 0 ELSE 1 + DigitPrefixLen(Tail(s))

RECURSIVE NumberRunLen(_)
\* the length of the longest prefix of s that [\d.,]+ can take
NumberRunLen(s) ==
    IF s = <<>> \/ ~(IsDigit(Head(s)) \/ Head(s) \in {".", ","})
    THEN 0
    ELSE 1 + NumberRunLen(Tail(s))

RECURSIVE DigitsValue(_)
DigitsValue(s) ==
    IF s = <<>>
    THEN 0
    ELSE DigitsValue(SubSeq(s, 1, Len(s) - 1)) * 10 + DigitValue(s[Len(s)])

RECURSIVE Pow10(_)
Pow10(n) == IF n = 0 THEN 1 ELSE 10 * Pow10(n - 1)

RECURSIVE ReplaceFirst(_, _, _)
\* String.prototype.replace with a string pattern: the first occurrence only
ReplaceFirst(s, from, to) ==
    IF s = <<>>
    THEN <<>>
    ELSE IF Head(s) = from
         THEN <<to>> \o Tail(s)
         ELSE <<Head(s)>> \o ReplaceFirst(Tail(s), from, to)

NaN == [nan |-> TRUE, num |-> 0, den |-> 1]

\* parseFloat on a text of digits, dots and commas: the longest prefix of the
\* form digits [. digits], as the fraction num / den; NaN when that prefix
\* has no digit.
ParseFloat(s) ==
    LET n1 == DigitPrefixLen(s)
        rest == SubSeq(s, n1 + 1, Len(s))
        hasDot == rest # <<>> /\ Head(rest) = "."
        n2 == IF hasDot THEN DigitPrefixLen(Tail(rest)) ELSE 0
    IN  IF n1 = 0 /\ n2 = 0
        THEN NaN
        ELSE [nan |-> FALSE,
              num |-> DigitsValue(SubSeq(s, 1, n1) \o SubSeq(rest, 2, n2 + 1)),
              den |-> Pow10(n2)]

RECURSIVE NatToString(_)
NatToString(n) ==
    IF n < 10
    THEN <<Digits[n + 1]>>
    ELSE NatToString(n \div 10) \o <<Digits[(n % 10) + 1]>>

\* (originalAmount / originalServings) * newServings, then toFixed(2): the
\* amount in hundredths, a tie going up.
ScaledHundredths(amount, originalServings, newServings) ==
    LET p == amount.num * 100 * newServings
        q == amount.den * originalServings
    IN  (2 * p + q) \div (2 * q)

\* parseFloat(x.toFixed(2)).toString().replace('.', ','): at most two
\* decimals, trailing zeros removed, a decimal comma.
FormatAmount(hundredths) ==
    LET whole == NatToString(hundredths \div 100)
        frac == hundredths % 100
    IN  IF frac = 0
        THEN whole
        ELSE IF frac % 10 = 0
             THEN whole \o <<",">> \o NatToString(frac \div 10)
             ELSE whole \o <<",">> \o NatToString(frac \div 10)
                        \o NatToString(frac % 10)

\* line.match(/^([\d.,]+)(\s.*)$/): the leading run of digits, dots and
\* commas is followed by white space
ScaleMatch(line) ==
    LET n == NumberRunLen(line) IN
    n > 0 /\ n < Len(line) /\ IsSpace(line[n + 1])

ScaleIngredientLine(line, originalServings, newServings) ==
    LET n == NumberRunLen(line)
        numberPart == ReplaceFirst(SubSeq(line, 1, n), ",", ".")
        textPart == SubSeq(line, n + 1, Len(line))
        originalAmount == ParseFloat(numberPart)
    IN  IF ScaleMatch(line) /\ ~originalAmount.nan
        THEN FormatAmount(ScaledHundredths(originalAmount, originalServings,
                                           newServings)) \o textPart
        ELSE line

\* !recipe.servings
NoServings(servings) == servings = Undef \/ servings = 0

UpdateIngredientQuantities(originalRecipe, newServings) ==
    IF NoServings(originalRecipe.servings)
    THEN originalRecipe.ingredients
    ELSE [k \in 1..Len(originalRecipe.ingredients) |->
            ScaleIngredientLine(originalRecipe.ingredients[k],
                                originalRecipe.servings, newServings)]

RECURSIVE TrimStart(_)
TrimStart(s) ==
    IF s # <<>> /\ IsSpace(Head(s)) THEN TrimStart(Tail(s)) ELSE s

RECURSIVE TrimEnd(_)
TrimEnd(s) ==
    IF s # <<>> /\ IsSpace(s[Len(s)])
    THEN TrimEnd(SubSeq(s, 1, Len(s) - 1))
    ELSE s

\* String.prototype.trim
Trim(s) == TrimEnd(TrimStart(s))

NotEmpty(line) == line # <<>>

\* textarea.value.split('\n').map(i => i.trim()).filter(i => i !== '') of a
\* textarea that holds the lines joined by '\n'
TextareaLines(lines) ==
    SelectSeq([k \in 1..Len(lines) |-> Trim(lines[k])], NotEmpty)

\* parseInt(servingsInput.value) || 2
RequestedServings(value) ==
    LET n == DigitPrefixLen(value)
        parsed == DigitsValue(SubSeq(value, 1, n))
    IN  IF n = 0 \/ parsed = 0 THEN 2 ELSE parsed

\* index.tsx getSavedRecipes: JSON.parse(recipesJSON) outside any try block
TsxGetSavedRecipesThrows(blob) == blob.kind = "corrupt"

\* index.tsx isRecipeSaved
IsRecipeSaved(blob, recipeName) ==
    \E k \in 1..Len(GetSavedRecipes(blob)) :
        NameEqualsIgnoringCase(GetSavedRecipes(blob)[k].recipeName, recipeName)

\* index.tsx updateSavedCount: the text is written only for a count above 0
TsxSavedCount(blob, old) ==
    LET n == Len(GetSavedRecipes(blob)) IN
    IF n > 0 THEN [text |-> ToString(n), hidden |-> FALSE]
             ELSE [old EXCEPT !.hidden = TRUE]

\* index.tsx saveRecipeToStorage, the store it leaves and what it returns
TsxSaveRecipeToStorage(blob, recipe) ==
    IF IsRecipeSaved(blob, recipe.recipeName)
    THEN [blob |-> blob, ret |-> FALSE]
    ELSE [blob |-> JsonBlob(Append(GetSavedRecipes(blob), recipe)),
          ret |-> TRUE]

\* index.tsx updateRecipeInStorage, the store it leaves
UpdateRecipeInStorage(blob, originalRecipeName, updatedRecipe) ==
    LET recipes == GetSavedRecipes(blob)
        hits == {k \in 1..Len(recipes) :
                    NameEqualsIgnoringCase(recipes[k].recipeName,
                                           originalRecipeName)}
    IN  IF hits = {}
        THEN blob
        ELSE LET recipeIndex == CHOOSE k \in hits : \A h \in hits : k <= h
             IN  JsonBlob([recipes EXCEPT ![recipeIndex] = updatedRecipe])

\* index.tsx removeRecipeFromStorage, the store it leaves
TsxRemoveRecipeFromStorage(blob, recipeName) ==
    LET Keeps(r) == r.recipeName # recipeName IN
    JsonBlob(SelectSeq(GetSavedRecipes(blob), Keeps))

\* renderRecipe(recipe) for a recipe that is not null, on the store blob
RenderRecipe(recipe, blob) ==
    LET shown == IF NoServings(recipe.servings)
                 THEN [recipe EXCEPT !.servings = 4]
                 ELSE recipe
    IN  /\ originalRecipeForUpdate' = shown
        /\ currentRecipe' = shown
        /\ card' = "display"
        /\ saveBtnDisabled' = IsRecipeSaved(blob, shown.recipeName)
        /\ servingsCountSpan' = shown.servings
        /\ ingredientsListUl' = shown.ingredients

\* updateServingsDisplay(newServings)
UpdateServingsDisplay(newServings) ==
    IF newServings < 1
    THEN UNCHANGED <<currentRecipe, servingsCountSpan, ingredientsListUl>>
    ELSE LET newIngredients ==
                UpdateIngredientQuantities(originalRecipeForUpdate, newServings)
         IN  /\ servingsCountSpan' = newServings
             /\ ingredientsListUl' = newIngredients
             /\ currentRecipe' = [currentRecipe EXCEPT
                                     !.servings = newServings,
                                     !.ingredients = newIngredients]

TsxInit ==
    /\ RestQuiet
    /\ TsxQuiet
    /\ RetryQuiet
    /\ AppQuiet
    /\ ListQuiet
    /\ ApiQuiet
    /\ DraftQuiet
    /\ inputs \in TsxInputSets

\* recipe-form submit: generateRecipe up to its await
TsxGenerateSubmit ==
    /\ ~request.sent
    /\ ~savedModalOpen
    /\ \E promptValue \in PromptValues, servingsValue \in inputs.servingsTexts :
        IF promptValue = ""
        THEN UNCHANGED <<tsxVars, draftCall>>
        ELSE /\ card' = "none"
             /\ request' = [sent |-> TRUE,
                            servings |-> RequestedServings(servingsValue)]
             /\ draftCall' = NoDraftCall
             /\ UNCHANGED <<tsxSavedBlob, currentRecipe,
                            originalRecipeForUpdate, saveBtnDisabled,
                            servingsCountSpan, ingredientsListUl,
                            savedModalOpen, tsxBadge, edits>>
    /\ UNCHANGED <<tsxDraftVars, outsideTsxGenerate>>

\* generateRecipe after its await, the reply parsed: renderRecipe and then
\* clearDraft.  renderRecipe calls isRecipeSaved after it has assigned
\* currentRecipe; when that throws, the catch block calls renderError.
TsxGenerateResolves ==
    /\ request.sent
    /\ \E name \in inputs.names :
        LET recipe == [recipeName |-> name, servings |-> request.servings,
                       ingredients |-> ReplyIngredients,
                       madeFor |-> request.servings]
        IN  IF TsxGetSavedRecipesThrows(tsxSavedBlob)
            THEN /\ currentRecipe' = recipe
                 /\ card' = CASE card = "display" -> "buttons"
                              [] card = "edit" -> "buttonsEdit"
                              [] OTHER -> card
                 /\ draftCall' = [NoDraftCall EXCEPT
                                     !.file = "index.tsx", !.op = "generate",
                                     !.reply = "recipe", !.ret = "thrown"]
                 /\ UNCHANGED <<originalRecipeForUpdate, saveBtnDisabled,
                                servingsCountSpan, ingredientsListUl,
                                tsxDraftVars>>
            ELSE /\ RenderRecipe(recipe, tsxSavedBlob)
                 /\ tsxDraftBlob' = TsxAbsentDraft
                 /\ draftCall' = [NoDraftCall EXCEPT
                                     !.file = "index.tsx", !.op = "generate",
                                     !.reply = "recipe", !.ret = "recipe"]
                 /\ UNCHANGED tsxDraftNotificationHidden
    /\ request' = NoRequest
    /\ UNCHANGED <<tsxSavedBlob, savedModalOpen, tsxBadge, edits,
                   outsideTsxGenerate>>

\* generateRecipe after its await, the call or JSON.parse having thrown:
\* renderError replaces the card, the buttons of a card shown meanwhile stay
TsxGenerateRejects ==
    /\ request.sent
    /\ card' = CASE card = "display" -> "buttons"
                 [] card = "edit" -> "buttonsEdit"
                 [] OTHER -> card
    /\ request' = NoRequest
    /\ draftCall' = [NoDraftCall EXCEPT
                        !.file = "index.tsx", !.op = "generate",
                        !.reply = "error", !.ret = "null"]
    /\ UNCHANGED <<tsxSavedBlob, currentRecipe, originalRecipeForUpdate,
                   saveBtnDisabled, servingsCountSpan, ingredientsListUl,
                   savedModalOpen, tsxBadge, edits, tsxDraftVars,
                   outsideTsxGenerate>>

\* increase-servings click
IncreaseServings ==
    /\ card = "display"
    /\ ~savedModalOpen
    /\ currentRecipe.servings < MaxServings
    /\ UpdateServingsDisplay(currentRecipe.servings + 1)
    /\ UNCHANGED <<tsxSavedBlob, originalRecipeForUpdate, card,
                   saveBtnDisabled, savedModalOpen, tsxBadge, request,
                   edits, outsideTsx>>

\* decrease-servings click
DecreaseServings ==
    /\ card = "display"
    /\ ~savedModalOpen
    /\ IF currentRecipe.servings > 1
       THEN UpdateServingsDisplay(currentRecipe.servings - 1)
       ELSE UNCHANGED <<currentRecipe, servingsCountSpan, ingredientsListUl>>
    /\ UNCHANGED <<tsxSavedBlob, originalRecipeForUpdate, card,
                   saveBtnDisabled, savedModalOpen, tsxBadge, request,
                   edits, outsideTsx>>

\* save-recipe-btn click
TsxSaveClick ==
    /\ card \in {"display", "buttons"}
    /\ ~saveBtnDisabled
    /\ ~savedModalOpen
    /\ LET done == TsxSaveRecipeToStorage(tsxSavedBlob, currentRecipe) IN
        /\ tsxSavedBlob' = done.blob
        /\ tsxBadge' = IF done.ret THEN TsxSavedCount(done.blob, tsxBadge)
                                   ELSE tsxBadge
        /\ saveBtnDisabled' = done.ret
    /\ UNCHANGED <<currentRecipe, originalRecipeForUpdate, card,
                   servingsCountSpan, ingredientsListUl, savedModalOpen,
                   request, edits, outsideTsx>>

\* edit-recipe-btn click
EditClick ==
    /\ card \in {"display", "buttons"}
    /\ ~savedModalOpen
    /\ card' = IF card = "display" THEN "edit" ELSE "buttonsEdit"
    /\ UNCHANGED <<tsxSavedBlob, currentRecipe, originalRecipeForUpdate,
                   saveBtnDisabled, servingsCountSpan, ingredientsListUl,
                   savedModalOpen, tsxBadge, request, edits, outsideTsx>>

\* cancel-edit-btn click
CancelEditClick ==
    /\ card \in {"edit", "buttonsEdit"}
    /\ ~savedModalOpen
    /\ RenderRecipe(originalRecipeForUpdate, tsxSavedBlob)
    /\ UNCHANGED <<tsxSavedBlob, savedModalOpen, tsxBadge, request,
                   edits, outsideTsx>>

\* save-edit-btn click with no image chosen; the name field holds newName,
\* the other fields are as renderRecipe filled them
SaveEditClick ==
    /\ card = "edit"
    /\ ~savedModalOpen
    /\ edits < MaxEdits
    /\ \E newName \in inputs.names :
        LET updatedRecipe ==
                [recipeName |-> newName,
                 ingredients |->
                     TextareaLines(originalRecipeForUpdate.ingredients),
                 servings |-> IF NoServings(currentRecipe.servings)
                              THEN 4
                              ELSE currentRecipe.servings,
                 madeFor |-> originalRecipeForUpdate.madeFor]
            stored == UpdateRecipeInStorage(tsxSavedBlob,
                          originalRecipeForUpdate.recipeName, updatedRecipe)
        IN  IF /\ ~NameEqualsIgnoringCase(newName,
                                          originalRecipeForUpdate.recipeName)
               /\ IsRecipeSaved(tsxSavedBlob, newName)
            THEN UNCHANGED tsxVars
            ELSE /\ tsxSavedBlob' = stored
                 /\ tsxBadge' = IF stored # tsxSavedBlob
                                THEN TsxSavedCount(stored, tsxBadge)
                                ELSE tsxBadge
                 /\ RenderRecipe(updatedRecipe, stored)
                 /\ edits' = edits + 1
                 /\ UNCHANGED <<savedModalOpen, request>>
    /\ UNCHANGED outsideTsx

\* view-saved-btn click
ViewSavedClick ==
    /\ ~savedModalOpen
    /\ savedModalOpen' = TRUE
    /\ UNCHANGED <<tsxSavedBlob, currentRecipe, originalRecipeForUpdate, card,
                   saveBtnDisabled, servingsCountSpan, ingredientsListUl,
                   tsxBadge, request, edits, outsideTsx>>

\* close-modal-btn click
CloseModalClick ==
    /\ savedModalOpen
    /\ savedModalOpen' = FALSE
    /\ UNCHANGED <<tsxSavedBlob, currentRecipe, originalRecipeForUpdate, card,
                   saveBtnDisabled, servingsCountSpan, ingredientsListUl,
                   tsxBadge, request, edits, outsideTsx>>

\* view-btn click on the k-th item of the list in the modal
ViewBtnClick ==
    /\ savedModalOpen
    /\ \E k \in 1..Len(GetSavedRecipes(tsxSavedBlob)) :
        RenderRecipe(GetSavedRecipes(tsxSavedBlob)[k], tsxSavedBlob)
    /\ savedModalOpen' = FALSE
    /\ UNCHANGED <<tsxSavedBlob, tsxBadge, request, edits, outsideTsx>>

\* delete-btn click on the k-th item of the list in the modal
TsxDeleteClick ==
    /\ savedModalOpen
    /\ \E k \in 1..Len(GetSavedRecipes(tsxSavedBlob)), answer \in BOOLEAN :
        IF answer
        THEN LET left == TsxRemoveRecipeFromStorage(tsxSavedBlob,
                            GetSavedRecipes(tsxSavedBlob)[k].recipeName)
             IN  /\ tsxSavedBlob' = left
                 /\ tsxBadge' = TsxSavedCount(left, tsxBadge)
        ELSE UNCHANGED <<tsxSavedBlob, tsxBadge>>
    /\ UNCHANGED <<currentRecipe, originalRecipeForUpdate, card,
                   saveBtnDisabled, servingsCountSpan, ingredientsListUl,
                   savedModalOpen, request, edits, outsideTsx>>

CardNext ==
    \/ TsxGenerateSubmit
    \/ TsxGenerateResolves
    \/ TsxGenerateRejects
    \/ IncreaseServings
    \/ DecreaseServings
    \/ TsxSaveClick
    \/ EditClick
    \/ CancelEditClick
    \/ SaveEditClick
    \/ ViewSavedClick
    \/ CloseModalClick
    \/ ViewBtnClick
    \/ TsxDeleteClick

CardSpec == TsxInit /\ [][CardNext]_vars

(***************************************************************************)
(* Part III properties                                                     *)
(***************************************************************************)

TsxSaved == GetSavedRecipes(tsxSavedBlob)

\* The ingredients a recipe has when they are the ones scaled for its servings
\* from the list the AI service wrote for madeFor servings.
ScaledForServings(recipe) ==
    UpdateIngredientQuantities(
        [ingredients |-> ReplyIngredients, servings |-> recipe.madeFor],
        recipe.servings)

\* C9: every recipe held as the current recipe or written to the store has
\* the ingredient quantities scaled for its own servings value; no sequence
\* of +/- clicks, edit-and-save, cancel-edit and save-to-storage leaves a
\* recipe with changed servings and the quantities of another serving count.
C9_IngredientsScaledForServings ==
    /\ currentRecipe # NoTsxRecipe
        => currentRecipe.ingredients = ScaledForServings(currentRecipe)
    /\ \A k \in 1..Len(TsxSaved) :
        TsxSaved[k].ingredients = ScaledForServings(TsxSaved[k])


(***************************************************************************)
(* Part IV.  The shopping list of part_000                                 *)
(***************************************************************************)

\* The longest list of texts handed to addToShoppingList in one call.
MaxBatch == 2

UpperLetters ==
    <<"A", "B", "C", "D", "E", "F", "G", "H", "I", "J", "K", "L", "M",
      "N", "O", "P", "Q", "R", "S", "T", "U", "V", "W", "X", "Y", "Z">>

LowerLetters ==
    <<"a", "b", "c", "d", "e", "f", "g", "h", "i", "j", "k", "l", "m",
      "n", "o", "p", "q", "r", "s", "t", "u", "v", "w", "x", "y", "z">>

\* the lower-case letter of each upper-case letter
LowerOf ==
    [c \in {UpperLetters[d] : d \in 1..26} |->
        LowerLetters[CHOOSE d \in 1..26 : UpperLetters[d] = c]]

LowerChar(c) == IF c \in DOMAIN LowerOf THEN LowerOf[c] ELSE c

\* String.prototype.toLowerCase on a text given as its characters
LowerLine(line) == [k \in 1..Len(line) |-> LowerChar(line[k])]

LineSalzLower == <<"s", "a", "l", "z">>

\* An id no item carries.
AbsentItemId == "zz9zz9zz9"

RECURSIVE SeqsUpTo(_, _)
\* the sequences over texts of length at most n
SeqsUpTo(texts, n) ==
    IF n = 0
    THEN {<<>>}
    ELSE SeqsUpTo(texts, n - 1) \cup
         {Append(b, t) : b \in {c \in SeqsUpTo(texts, n - 1) : Len(c) = n - 1},
                         t \in texts}

\* What a run of the shopping list draws from: the name the AI service
\* answers with, the lists of texts handed to addToShoppingList and the
\* values of Math.random().toString(36).substr(2, 9).
ListInputSets ==
    {[names |-> {"Pasta"},
      batches |-> SeqsUpTo({LineSalz, LineSalzLower}, MaxBatch),
      itemIds |-> {"k3j9x0a1b", "q81ztw5mc"}, replies |-> {"recipe"}]}

\* getShoppingList: data ? JSON.parse(data) : [], and [] when parse throws
GetShoppingList(blob) == IF blob.kind = "json" THEN blob.items ELSE <<>>

SomeItemHasSpelling(current, text) ==
    \E k \in 1..Len(current) : current[k].text = text

\* current.some(item => item.text.toLowerCase() === text.toLowerCase())
SomeItemHasText(current, text) ==
    \E k \in 1..Len(current) : LowerLine(current[k].text) = LowerLine(text)

RECURSIVE PushNewItems(_, _, _, _)
\* items.forEach from the k-th text on; draw[k] is the id Math.random gives
\* for the k-th text
PushNewItems(current, items, draw, k) ==
    IF k > Len(items)
    THEN current
    ELSE PushNewItems(
             IF SomeItemHasText(current, items[k])
             THEN current
             ELSE Append(current, [id |-> draw[k], text |-> items[k],
                                   completed |-> FALSE]),
             items, draw, k + 1)

AddToShoppingListAtFront(blob, items, draw) ==
    LET current == GetShoppingList(blob)
        pushed == PushNewItems(current, items, draw, 1)
    IN  SubSeq(pushed, Len(current) + 1, Len(pushed)) \o current

\* addToShoppingList(items): the list handed to saveShoppingList
AddToShoppingList(blob, items, draw) ==
    PushNewItems(GetShoppingList(blob), items, draw, 1)

\* list.find(i => i.id === id): the position of the item, 0 when there is none
FindItem(list, id) ==
    IF \E k \in 1..Len(list) : list[k].id = id
    THEN CHOOSE k \in 1..Len(list) :
            /\ list[k].id = id
            /\ \A j \in 1..(k - 1) : list[j].id # id
    ELSE 0

FlipCompletedOfAll(list, k) ==
    [j \in 1..Len(list) |-> [list[j] EXCEPT !.completed = ~@]]

\* item.completed = !item.completed
FlipCompleted(list, k) ==
    [list EXCEPT ![k] = [@ EXCEPT !.completed = ~@]]

\* saveShoppingList(list): setItem, then renderShoppingList
SaveShoppingList(list) ==
    /\ shoppingBlob' = JsonBlob(list)
    /\ shoppingListDom' = list

\* toggleShoppingItem(id)
ToggleShoppingItem(id) ==
    LET list == GetShoppingList(shoppingBlob)
        k == FindItem(list, id)
    IN  /\ IF k # 0
           THEN SaveShoppingList(FlipCompleted(list, k))
           ELSE UNCHANGED <<shoppingBlob, shoppingListDom>>
        /\ listCall' = [op |-> "toggle", items |-> <<>>, id |-> id,
                        found |-> k # 0, wrote |-> k # 0,
                        tick |-> 1 - listCall.tick]

ListInit ==
    /\ RestQuiet
    /\ shoppingBlob \in {AbsentBlob, CorruptBlob}
    /\ shoppingListDom = <<>>
    /\ listCall = NoListCall
    /\ AppQuiet
    /\ inputs \in ListInputSets
    /\ RetryQuiet
    /\ TsxQuiet
    /\ ApiQuiet
    /\ DraftQuiet

\* a call of the exported addToShoppingList
AddToShoppingListCall ==
    /\ \E items \in inputs.batches, draw \in [1..MaxBatch -> inputs.itemIds] :
          /\ SaveShoppingList(AddToShoppingList(shoppingBlob, items, draw))
          /\ listCall' = [op |-> "add", items |-> items, id |-> NoId,
                          found |-> FALSE, wrote |-> TRUE,
                          tick |-> 1 - listCall.tick]
    /\ UNCHANGED outsideList

\* add-to-list-btn click: addToShoppingList(r.ingredients)
AddToListClick ==
    /\ currentDisplayedRecipe # NoRecipe
    /\ \E draw \in [1..Len(currentDisplayedRecipe.ingredients)
                       -> inputs.itemIds] :
          SaveShoppingList(AddToShoppingList(shoppingBlob,
                               currentDisplayedRecipe.ingredients, draw))
    /\ listCall' = [op |-> "add",
                    items |-> currentDisplayedRecipe.ingredients, id |-> NoId,
                    found |-> FALSE, wrote |-> TRUE,
                    tick |-> 1 - listCall.tick]
    /\ UNCHANGED outsideList

\* a call of the exported toggleShoppingItem
ToggleShoppingItemCall ==
    /\ \E id \in inputs.itemIds \cup {AbsentItemId} : ToggleShoppingItem(id)
    /\ UNCHANGED outsideList

\* click on the k-th item of the rendered list: toggleShoppingItem(item.id)
ShoppingItemClick ==
    /\ \E k \in 1..Len(shoppingListDom) :
          ToggleShoppingItem(shoppingListDom[k].id)
    /\ UNCHANGED outsideList

\* btn-clear-list click
ClearListClick ==
    /\ \E answer \in BOOLEAN :
          IF answer
          THEN /\ SaveShoppingList(<<>>)
               /\ listCall' = [op |-> "clear", items |-> <<>>, id |-> NoId,
                               found |-> FALSE, wrote |-> TRUE,
                               tick |-> 1 - listCall.tick]
          ELSE /\ UNCHANGED <<shoppingBlob, shoppingListDom>>
               /\ listCall' = [op |-> "clear", items |-> <<>>, id |-> NoId,
                               found |-> FALSE, wrote |-> FALSE,
                               tick |-> 1 - listCall.tick]
    /\ UNCHANGED outsideList

\* nav-btn click for tab-shopping: renderShoppingList
ShoppingTabClick ==
    /\ shoppingListDom' = GetShoppingList(shoppingBlob)
    /\ listCall' = [op |-> "render", items |-> <<>>, id |-> NoId,
                    found |-> FALSE, wrote |-> FALSE,
                    tick |-> 1 - listCall.tick]
    /\ UNCHANGED <<shoppingBlob, outsideList>>

ListNext ==
    \/ GenerateClick
    \/ GenerateCompletes
    \/ AddToShoppingListCall
    \/ AddToListClick
    \/ ToggleShoppingItemCall
    \/ ShoppingItemClick
    \/ ClearListClick
    \/ ShoppingTabClick

ListSpec == ListInit /\ [][ListNext]_vars

(***************************************************************************)
(* Part IV, properties.  A step that changes listCall.tick is a call of a  *)
(* shopping-list operation; listCall' says which and with what.            *)
(***************************************************************************)

ShoppingList == GetShoppingList(shoppingBlob)

\* the number of items of list whose text equals text up to letter case
CountText(list, text) ==
    Cardinality({k \in 1..Len(list) : LowerLine(list[k].text) = LowerLine(text)})

\* C11: starting from an empty list, after any sequence of
\* addToShoppingList, toggleShoppingItem and clear-list operations no two
\* items stored under 'shoppingList' have texts that are equal under
\* case-insensitive comparison; an add leaves the number of items with a given
\* text (up to case) unchanged when an item with that text was there, and
\* makes it exactly one for a text of the added batch that was not.
C11_ItemTextsUniqueIgnoringCase ==
    /\ [](\A j, k \in 1..Len(ShoppingList) :
            j # k => LowerLine(ShoppingList[j].text)
                        # LowerLine(ShoppingList[k].text))
    /\ [][(listCall'.tick # listCall.tick /\ listCall'.op = "add")
          => \A n \in 1..Len(listCall'.items) :
                LET text == listCall'.items[n] IN
                /\ CountText(ShoppingList, text) = 1
                      => /\ CountText(ShoppingList', text) = 1
                         /\ Len(ShoppingList') - Len(ShoppingList)
                               < Len(listCall'.items)
                /\ CountText(ShoppingList, text) = 0
                      => CountText(ShoppingList', text) = 1]_vars

\* an item with text Salz is stored, and the last call added a batch with the
\* text salz, and one with both spellings
C11_Witness ==
    /\ listCall.op = "add"
    /\ listCall.items = <<LineSalzLower, LineSalz>>
    /\ Len(ShoppingList) = 2
    /\ \E k \in 1..2 : ShoppingList[k].text = LineSalz

\* C15: toggleShoppingItem(id) flips the completed flag of the item it finds
\* by id and nothing else: ids, texts, order and length stay, every other
\* item stays; when no item has the id, nothing is written and the stored
\* item is what it was.
C15_ToggleFlipsOnlyCompleted ==
    [][(listCall'.tick # listCall.tick /\ listCall'.op = "toggle")
       => LET id == listCall'.id
              has == \E k \in 1..Len(ShoppingList) : ShoppingList[k].id = id
          IN  /\ has =>
                  /\ Len(ShoppingList') = Len(ShoppingList)
                  /\ \A k \in 1..Len(ShoppingList) :
                        /\ ShoppingList'[k].id = ShoppingList[k].id
                        /\ ShoppingList'[k].text = ShoppingList[k].text
                        /\ ShoppingList[k].id # id
                              => ShoppingList'[k] = ShoppingList[k]
                  /\ Cardinality({k \in 1..Len(ShoppingList) :
                        ShoppingList'[k].completed
                            # ShoppingList[k].completed}) = 1
              /\ ~has =>
                  /\ ~listCall'.wrote
                  /\ shoppingBlob' = shoppingBlob]_vars

\* a toggle found its item in a list of two and completed it; the other item
\* is not completed
C15_Witness ==
    /\ listCall.op = "toggle"
    /\ listCall.found
    /\ Len(ShoppingList) = 2
    /\ \E j, k \in 1..2 :
          /\ ShoppingList[j].id = listCall.id
          /\ ShoppingList[j].completed
          /\ ShoppingList[k].id # listCall.id
          /\ ~ShoppingList[k].completed

RECURSIVE FreshTexts(_, _)
\* the texts of items that no item of list has and no earlier text of
\* items is, up to letter case, in the order of items; seen is the texts of
\* list and the texts met so far, all in lower case
FreshTexts(items, seen) ==
    IF items = <<>>
    THEN <<>>
    ELSE IF LowerLine(Head(items)) \in seen
         THEN FreshTexts(Tail(items), seen)
         ELSE <<Head(items)>>
                 \o FreshTexts(Tail(items), seen \cup {LowerLine(Head(items))})

\* C29: addToShoppingList(items) only appends: every item of the list keeps
\* its id, its text, its completed flag and its position; the texts of
\* items that were not in the list (up to letter case) are appended once
\* each, in the order of items, with completed = false.
C29_AddOnlyAppends ==
    [][(listCall'.tick # listCall.tick /\ listCall'.op = "add")
       => LET old == Len(ShoppingList)
              fresh == FreshTexts(listCall'.items,
                                  {LowerLine(ShoppingList[k].text) :
                                      k \in 1..old})
          IN  /\ Len(ShoppingList') = old + Len(fresh)
              /\ \A k \in 1..old : ShoppingList'[k] = ShoppingList[k]
              /\ \A k \in 1..Len(fresh) :
                    /\ ShoppingList'[old + k].text = fresh[k]
                    /\ ShoppingList'[old + k].completed = FALSE]_vars

\* the click on add-to-list-btn has appended 500g Nudeln to a list whose
\* item salz was completed: the item is still completed, and the Salz of
\* the recipe was not added
C29_Witness ==
    /\ listCall.op = "add"
    /\ listCall.items = <<Line500gNudeln, LineSalz>>
    /\ Len(ShoppingList) = 2
    /\ ShoppingList[1].text = LineSalzLower
    /\ ShoppingList[1].completed
    /\ ShoppingList[2].text = Line500gNudeln
    /\ ~ShoppingList[2].completed


(***************************************************************************)
(* Part V.  The store functions called as functions.                       *)
(*                                                                         *)
(* localStorage is what an earlier session or another program left: the    *)
(* item 'savedRecipes' is absent or is text that JSON.parse rejects.       *)
(* setItem throws a QuotaExceededError when the value does not fit; the    *)
(* room is counted in entries.  part_000 has getSavedRecipes,              *)
(* saveRecipeToStorage and removeRecipeFromStorage; index.tsx has those    *)
(* and updateRecipeInStorage.  apiCall records what the caller of the last *)
(* call could observe: the value returned, the exception thrown, the alert *)
(* shown.  Every step of ApiSpec is one call of a function of the file the *)
(* run has loaded.                                                         *)
(***************************************************************************)

\* The number of recipes whose JSON text fits the storage that is nearly
\* full.
StorageCapacity == 1

\* Room for every collection the runs can build.
AmpleCapacity == StorageCapacity + 2

\* A run loads one of the two files, in a storage that is nearly full or in
\* one with room; the names its functions are called with.
ApiInputSets ==
    {[file |-> f, names |-> {"Pasta", "pasta", "Suppe"}, capacity |-> c] :
        f \in {"part_000", "index.tsx"},
        c \in {StorageCapacity, AmpleCapacity}}

\* The recipe with a name that a caller of part_000 passes, as the save
\* button builds it.
ApiRecipe(name) ==
    [id |-> "k3j9x0a1b", recipeName |-> name, servings |-> 2,
     ingredients |-> <<LineSalz>>, createdAt |-> 1000]

\* The recipe with a name that a caller of index.tsx passes, as
\* handleAddRecipe builds it.
TsxApiRecipe(name) ==
    [recipeName |-> name, servings |-> 4, ingredients |-> ReplyIngredients,
     madeFor |-> 4]

\* The recipe that the edit form of index.tsx builds when an image was
\* chosen: imageUrl holds the data URL of the compressed image.
TsxApiRecipeWithImage(name) ==
    [recipeName |-> name, servings |-> 4, ingredients |-> ReplyIngredients,
     madeFor |-> 4, imageUrl |-> "data:image/jpeg;base64"]

\* localStorage.setItem throws QuotaExceededError for this collection; an
\* entry with an image takes the room of two
ExceedsQuota(items, capacity) ==
    Len(items)
      + Cardinality({k \in 1..Len(items) : "imageUrl" \in DOMAIN items[k]})
      > capacity

\* The alerts of the store functions of index.tsx (umlauts and sharp s
\* written out).
AlertNameExists == "Ein Rezept mit diesem Namen existiert bereits."
AlertStorageFullSave ==
    "Speicherplatz voll! Das Rezept (oder das Bild) ist zu gross fuer den lokalen Speicher. Bitte loesche alte Rezepte oder verwende ein kleineres Bild."
AlertSaveFailed == "Fehler beim Speichern des Rezepts."
AlertStorageFullUpdate ==
    "Speicherplatz voll! Die Aenderungen konnten nicht gespeichert werden, da der Speicher voll ist."
AlertUpdateFailed == "Fehler beim Aktualisieren des Rezepts."

SaveCatchAlertsTheSame(error) == AlertSaveFailed

\* the catch block of index.tsx saveRecipeToStorage
SaveCatchAlert(error) ==
    IF error = "QuotaExceededError" THEN AlertStorageFullSave
                                    ELSE AlertSaveFailed

\* the catch block of index.tsx updateRecipeInStorage
UpdateCatchAlert(error) ==
    IF error = "QuotaExceededError" THEN AlertStorageFullUpdate
                                    ELSE AlertUpdateFailed

SaveRecipeCallKeepsWhatFits(blob, r, answer, capacity) ==
    LET done == SaveRecipeToStorage(blob, r, answer) IN
    IF done.wrote /\ ExceedsQuota(done.blob.items, capacity)
    THEN [blob |-> JsonBlob(SubSeq(done.blob.items, 2,
                                   Len(done.blob.items))),
          asked |-> done.asked, wrote |-> FALSE,
          ret |-> "none", thrown |-> "QuotaExceededError",
          alert |-> "none", kind |-> "full"]
    ELSE [blob |-> done.blob, asked |-> done.asked, wrote |-> done.wrote,
          ret |-> IF done.ret THEN "true" ELSE "false", thrown |-> "none",
          alert |-> "none",
          kind |-> IF done.ret THEN "success" ELSE "conflict"]

\* part_000 saveRecipeToStorage(r) in a storage with a capacity: setItem may
\* throw, and nothing catches it.
SaveRecipeCall(blob, r, answer, capacity) ==
    LET done == SaveRecipeToStorage(blob, r, answer) IN
    IF done.wrote /\ ExceedsQuota(done.blob.items, capacity)
    THEN [blob |-> blob, asked |-> done.asked, wrote |-> FALSE,
          ret |-> "none", thrown |-> "QuotaExceededError",
          alert |-> "none", kind |-> "full"]
    ELSE [blob |-> done.blob, asked |-> done.asked, wrote |-> done.wrote,
          ret |-> IF done.ret THEN "true" ELSE "false", thrown |-> "none",
          alert |-> "none",
          kind |-> IF done.ret THEN "success" ELSE "conflict"]

\* index.tsx saveRecipeToStorage(recipe) in a storage with a capacity
TsxSaveRecipeCall(blob, recipe, capacity) ==
    LET done == TsxSaveRecipeToStorage(blob, recipe) IN
    IF TsxGetSavedRecipesThrows(blob)
    THEN [blob |-> blob, ret |-> "false", thrown |-> "none",
          alert |-> SaveCatchAlert("SyntaxError"), kind |-> "failure"]
    ELSE IF ~done.ret
    THEN [blob |-> blob, ret |-> "false", thrown |-> "none",
          alert |-> AlertNameExists, kind |-> "conflict"]
    ELSE IF ExceedsQuota(done.blob.items, capacity)
    THEN [blob |-> blob, ret |-> "false", thrown |-> "none",
          alert |-> SaveCatchAlert("QuotaExceededError"), kind |-> "full"]
    ELSE [blob |-> done.blob, ret |-> "true", thrown |-> "none",
          alert |-> "none", kind |-> "success"]

\* index.tsx updateRecipeInStorage(originalRecipeName, updatedRecipe) in a
\* storage with a capacity; it returns nothing
TsxUpdateRecipeCall(blob, originalRecipeName, updatedRecipe, capacity) ==
    LET after == UpdateRecipeInStorage(blob, originalRecipeName, updatedRecipe)
    IN
    IF TsxGetSavedRecipesThrows(blob)
    THEN [blob |-> blob, ret |-> "undefined", thrown |-> "none",
          alert |-> UpdateCatchAlert("SyntaxError"), kind |-> "failure"]
    ELSE IF ~IsRecipeSaved(blob, originalRecipeName)
    THEN [blob |-> blob, ret |-> "undefined", thrown |-> "none",
          alert |-> "none", kind |-> "noop"]
    ELSE IF ExceedsQuota(after.items, capacity)
    THEN [blob |-> blob, ret |-> "undefined", thrown |-> "none",
          alert |-> UpdateCatchAlert("QuotaExceededError"), kind |-> "full"]
    ELSE [blob |-> after, ret |-> "undefined", thrown |-> "none",
          alert |-> "none", kind |-> "success"]

\* index.tsx removeRecipeFromStorage(recipeName): no try block
TsxRemoveRecipeCall(blob, recipeName) ==
    IF TsxGetSavedRecipesThrows(blob)
    THEN [blob |-> blob, ret |-> "none", thrown |-> "SyntaxError",
          alert |-> "none", kind |-> "failure"]
    ELSE [blob |-> TsxRemoveRecipeFromStorage(blob, recipeName),
          ret |-> "undefined", thrown |-> "none", alert |-> "none",
          kind |-> "success"]

ApiInit ==
    /\ RestQuiet
    /\ inputs \in ApiInputSets
    /\ savedBlob \in IF inputs.file = "part_000"
                     THEN {AbsentBlob, CorruptBlob} ELSE {AbsentBlob}
    /\ savedListDom = <<>>
    /\ currentDisplayedRecipe = NoRecipe
    /\ badge = SavedCountBadge(savedBlob)
    /\ pending = 0
    /\ loaderHidden = TRUE
    /\ lastCall = NoCall
    /\ tsxSavedBlob \in IF inputs.file = "index.tsx"
                        THEN {AbsentBlob, CorruptBlob} ELSE {AbsentBlob}
    /\ currentRecipe = NoTsxRecipe
    /\ originalRecipeForUpdate = NoTsxRecipe
    /\ card = "none"
    /\ saveBtnDisabled = FALSE
    /\ servingsCountSpan = Undef
    /\ ingredientsListUl = <<>>
    /\ savedModalOpen = FALSE
    /\ tsxBadge = [text |-> "", hidden |-> TRUE]
    /\ request = NoRequest
    /\ edits = 0
    /\ apiCall = NoApiCall
    /\ RetryQuiet
    /\ ListQuiet
    /\ DraftQuiet

\* part_000: getSavedRecipes()
GetSavedRecipesCall ==
    /\ inputs.file = "part_000"
    /\ apiCall' = [NoApiCall EXCEPT !.file = "part_000", !.op = "get",
                      !.ret = "items", !.kind = "read"]
    /\ UNCHANGED <<appVars, tsxVars, outsideStores>>

\* part_000: saveRecipeToStorage(r)
SaveRecipeToStorageCall ==
    /\ inputs.file = "part_000"
    /\ \E name \in inputs.names, answer \in BOOLEAN :
          LET r == ApiRecipe(name)
              done == SaveRecipeCall(savedBlob, r, answer, inputs.capacity)
          IN  /\ savedBlob' = done.blob
              /\ badge' = IF done.kind = "success"
                          THEN SavedCountBadge(done.blob) ELSE badge
              /\ lastCall' = [op |-> "save", arg |-> r, asked |-> done.asked,
                              answer |-> done.asked /\ answer,
                              ret |-> done.ret = "true", wrote |-> done.wrote]
              /\ apiCall' = [file |-> "part_000", op |-> "save",
                             name |-> name, ret |-> done.ret,
                             thrown |-> done.thrown, alert |-> done.alert,
                             kind |-> done.kind]
    /\ UNCHANGED <<savedListDom, currentDisplayedRecipe, pending,
                   loaderHidden, inputs, tsxVars, outsideStores>>

\* part_000: removeRecipeFromStorage(name)
RemoveRecipeFromStorageCall ==
    /\ inputs.file = "part_000"
    /\ \E name \in inputs.names :
          LET after == RemoveRecipeFromStorage(savedBlob, name) IN
          /\ savedBlob' = after
          /\ badge' = SavedCountBadge(after)
          /\ savedListDom' = GetSavedRecipes(after)
          /\ lastCall' = [op |-> "remove",
                          arg |-> [NoRecipe EXCEPT !.recipeName = name],
                          asked |-> FALSE, answer |-> FALSE,
                          ret |-> FALSE, wrote |-> TRUE]
          /\ apiCall' = [file |-> "part_000", op |-> "remove",
                         name |-> name, ret |-> "undefined",
                         thrown |-> "none", alert |-> "none",
                         kind |-> "success"]
    /\ UNCHANGED <<currentDisplayedRecipe, pending, loaderHidden, inputs,
                   tsxVars, outsideStores>>

\* index.tsx: getSavedRecipes()
TsxGetSavedRecipesCall ==
    /\ inputs.file = "index.tsx"
    /\ apiCall' =
          IF TsxGetSavedRecipesThrows(tsxSavedBlob)
          THEN [NoApiCall EXCEPT !.file = "index.tsx", !.op = "get",
                   !.thrown = "SyntaxError", !.kind = "failure"]
          ELSE [NoApiCall EXCEPT !.file = "index.tsx", !.op = "get",
                   !.ret = "items", !.kind = "read"]
    /\ UNCHANGED <<appVars, tsxVars, outsideStores>>

\* index.tsx: saveRecipeToStorage(recipe)
TsxSaveRecipeToStorageCall ==
    /\ inputs.file = "index.tsx"
    /\ \E name \in inputs.names :
          LET done == TsxSaveRecipeCall(tsxSavedBlob, TsxApiRecipe(name),
                                        inputs.capacity)
          IN  /\ tsxSavedBlob' = done.blob
              /\ tsxBadge' = IF done.kind = "success"
                             THEN TsxSavedCount(done.blob, tsxBadge)
                             ELSE tsxBadge
              /\ apiCall' = [file |-> "index.tsx", op |-> "save",
                             name |-> name, ret |-> done.ret,
                             thrown |-> done.thrown, alert |-> done.alert,
                             kind |-> done.kind]
    /\ UNCHANGED <<currentRecipe, originalRecipeForUpdate, card,
                   saveBtnDisabled, servingsCountSpan, ingredientsListUl,
                   savedModalOpen, request, edits, appVars, outsideStores>>

\* index.tsx: updateRecipeInStorage(originalRecipeName, updatedRecipe)
UpdateRecipeInStorageCall ==
    /\ inputs.file = "index.tsx"
    /\ \E originalRecipeName \in inputs.names, name \in inputs.names :
       \E updatedRecipe \in {TsxApiRecipe(name), TsxApiRecipeWithImage(name)} :
          LET done == TsxUpdateRecipeCall(tsxSavedBlob, originalRecipeName,
                                          updatedRecipe, inputs.capacity)
          IN  /\ tsxSavedBlob' = done.blob
              /\ tsxBadge' = IF done.kind = "success"
                             THEN TsxSavedCount(done.blob, tsxBadge)
                             ELSE tsxBadge
              /\ apiCall' = [file |-> "index.tsx", op |-> "update",
                             name |-> originalRecipeName, ret |-> done.ret,
                             thrown |-> done.thrown, alert |-> done.alert,
                             kind |-> done.kind]
    /\ UNCHANGED <<currentRecipe, originalRecipeForUpdate, card,
                   saveBtnDisabled, servingsCountSpan, ingredientsListUl,
                   savedModalOpen, request, edits, appVars, outsideStores>>

\* index.tsx: removeRecipeFromStorage(recipeName)
TsxRemoveRecipeFromStorageCall ==
    /\ inputs.file = "index.tsx"
    /\ \E name \in inputs.names :
          LET done == TsxRemoveRecipeCall(tsxSavedBlob, name) IN
          /\ tsxSavedBlob' = done.blob
          /\ tsxBadge' = IF done.kind = "success"
                         THEN TsxSavedCount(done.blob, tsxBadge)
                         ELSE tsxBadge
          /\ apiCall' = [file |-> "index.tsx", op |-> "remove",
                         name |-> name, ret |-> done.ret,
                         thrown |-> done.thrown, alert |-> done.alert,
                         kind |-> done.kind]
    /\ UNCHANGED <<currentRecipe, originalRecipeForUpdate, card,
                   saveBtnDisabled, servingsCountSpan, ingredientsListUl,
                   savedModalOpen, request, edits, appVars, outsideStores>>

\* The batches addToShoppingList is called with under ApiSpec.
ApiBatches == {<<LineSalz>>, <<Line500gNudeln>>}

\* part_000 saveShoppingList(list) in a storage with a capacity: setItem may
\* throw, nothing catches it, and renderShoppingList is not reached.  The
\* room is counted in items.
SaveShoppingListCall(op, list, capacity) ==
    IF ExceedsQuota(list, capacity)
    THEN /\ UNCHANGED <<shoppingBlob, shoppingListDom>>
         /\ apiCall' = [NoApiCall EXCEPT !.file = "part_000", !.op = op,
                           !.thrown = "QuotaExceededError", !.kind = "full"]
    ELSE /\ SaveShoppingList(list)
         /\ apiCall' = [NoApiCall EXCEPT !.file = "part_000", !.op = op,
                           !.ret = "undefined", !.kind = "success"]

\* part_000: addToShoppingList(items)
AddToShoppingListInStorageCall ==
    /\ inputs.file = "part_000"
    /\ \E items \in ApiBatches, draw \in [1..MaxBatch -> {"k3j9x0a1b"}] :
          LET list == AddToShoppingList(shoppingBlob, items, draw) IN
          /\ SaveShoppingListCall("add", list, inputs.capacity)
          /\ listCall' = [op |-> "add", items |-> items, id |-> NoId,
                          found |-> FALSE,
                          wrote |-> ~ExceedsQuota(list, inputs.capacity),
                          tick |-> 1 - listCall.tick]
    /\ UNCHANGED <<appVars, tsxVars, retryVars, draftVars, tsxDraftVars,
                   draftCall, restVars>>

ApiNext ==
    \/ GetSavedRecipesCall
    \/ SaveRecipeToStorageCall
    \/ RemoveRecipeFromStorageCall
    \/ TsxGetSavedRecipesCall
    \/ TsxSaveRecipeToStorageCall
    \/ UpdateRecipeInStorageCall
    \/ TsxRemoveRecipeFromStorageCall
    \/ AddToShoppingListInStorageCall

ApiSpec == ApiInit /\ [][ApiNext]_vars

(***************************************************************************)
(* Part V, properties.  A step of ApiSpec is a call; apiCall' says which,  *)
(* ApiBlob is the item 'savedRecipes' before it and ApiBlob' after it.     *)
(***************************************************************************)

ApiBlob == IF inputs.file = "part_000" THEN savedBlob ELSE tsxSavedBlob

ApiSaved == GetSavedRecipes(ApiBlob)

Unreadable(blob) == blob.kind \in {"absent", "corrupt"}

\* the recipes of a collection whose name is not the given one up to case
WithoutName(recipes, name) ==
    SelectSeq(recipes,
              LAMBDA r : ~NameEqualsIgnoringCase(r.recipeName, name))

\* C12: getSavedRecipes never raises; on an item that is absent or that does
\* not parse it yields the empty collection, and a call built on it then
\* does what it does on an empty collection: it raises nothing, a save
\* stores exactly the recipe saved, a remove leaves the empty collection and
\* an update writes nothing.
C12_GettersFailSoft ==
    /\ [](apiCall.op = "get" => /\ apiCall.thrown = "none"
                                /\ apiCall.ret = "items")
    /\ [][(Unreadable(ApiBlob) /\ apiCall'.op # "add") =>
            /\ apiCall'.thrown = "none"
            /\ apiCall'.op = "save" =>
                  /\ Len(ApiSaved') = 1
                  /\ ApiSaved'[1].recipeName = apiCall'.name
            /\ apiCall'.op = "remove" => ApiSaved' = <<>>
            /\ apiCall'.op = "update" => ApiBlob' = ApiBlob]_vars

\* C13: a save of a recipe whose name equals no stored name, not even up to
\* case, and whose write fits the storage returns true and leaves the
\* earlier entries as they were and in their order, followed by the recipe.
C13_SaveOfNewNameAppends ==
    [][(/\ apiCall'.op = "save"
        /\ WithoutName(ApiSaved, apiCall'.name) = ApiSaved
        /\ ~ExceedsQuota(Append(ApiSaved, NoRecipe), inputs.capacity))
       => /\ apiCall'.ret = "true"
          /\ Len(ApiSaved') = Len(ApiSaved) + 1
          /\ SubSeq(ApiSaved', 1, Len(ApiSaved)) = ApiSaved
          /\ ApiSaved'[Len(ApiSaved')].recipeName = apiCall'.name]_vars

\* C14: a remove on a stored item that parses, or on none, takes away every
\* recipe whose name equals the given one up to case and leaves the others
\* in their order; it raises nothing, and with no such recipe the collection
\* is what it was.
C14_RemoveMatchesIgnoringCase ==
    [][(apiCall'.op = "remove" /\ ApiBlob.kind # "corrupt")
       => /\ apiCall'.thrown = "none"
          /\ apiCall'.alert = "none"
          /\ ApiSaved' = WithoutName(ApiSaved, apiCall'.name)]_vars

\* What the caller of a write call has in hand afterwards.
Signal(done) == <<done.ret, done.thrown, done.alert>>

\* What the caller of a write of the file has in hand after a write that was
\* made, and after one that failed for another reason than the room.
SuccessSignals ==
    IF inputs.file = "part_000"
    THEN {Signal(SaveRecipeCall(AbsentBlob, ApiRecipe(n), TRUE,
                                AmpleCapacity)) : n \in inputs.names}
    ELSE {Signal(TsxSaveRecipeCall(AbsentBlob, TsxApiRecipe(n),
                                   AmpleCapacity)) : n \in inputs.names}
         \cup {Signal(TsxUpdateRecipeCall(JsonBlob(<<TsxApiRecipe(n)>>), n,
                                          TsxApiRecipe(n), AmpleCapacity)) :
                  n \in inputs.names}

OtherFailureSignals ==
    IF inputs.file = "part_000"
    THEN {}
    ELSE {Signal(TsxSaveRecipeCall(CorruptBlob, TsxApiRecipe(n),
                                   AmpleCapacity)) : n \in inputs.names}
         \cup {Signal(TsxUpdateRecipeCall(CorruptBlob, n, TsxApiRecipe(n),
                                          AmpleCapacity)) :
                  n \in inputs.names}

C28_FailedWriteKeepsStoreAndBadge ==
    [][(/\ apiCall'.op \in {"save", "update", "add"}
        /\ apiCall'.kind \in {"full", "failure"})
       => /\ savedBlob' = savedBlob
          /\ tsxSavedBlob' = tsxSavedBlob
          /\ shoppingBlob' = shoppingBlob
          /\ badge' = badge
          /\ tsxBadge' = tsxBadge]_vars

\* part_000: a save found the storage full with one recipe stored and
\* counted by the badge, after an addition to the shopping list was written
C28_Witness ==
    /\ apiCall.file = "part_000"
    /\ apiCall.op = "save"
    /\ apiCall.kind = "full"
    /\ apiCall.thrown = "QuotaExceededError"
    /\ Len(GetSavedRecipes(savedBlob)) = StorageCapacity
    /\ badge = SavedCountBadge(savedBlob)
    /\ Len(GetShoppingList(shoppingBlob)) = StorageCapacity

(***************************************************************************)
(* Part VI.  The page of part_000 with its cookbook and its shopping list: *)
(* the clicks that change a stored collection and the clicks on the tabs   *)
(* that render one.                                                        *)
(***************************************************************************)

\* Two recipe names, one value of Date.now(), two values of Math.random().
PageInputSets ==
    {[names |-> {"Pasta", "Suppe"}, ids |-> {"k3j9x0a1b"}, times |-> {1000},
      itemIds |-> {"k3j9x0a1b", "q81ztw5mc"}, replies |-> {"recipe"}]}

PageInit ==
    /\ RestQuiet
    /\ savedBlob = AbsentBlob
    /\ savedListDom = <<>>
    /\ currentDisplayedRecipe = NoRecipe
    /\ badge = SavedCountBadge(AbsentBlob)
    /\ pending = 0
    /\ loaderHidden = TRUE
    /\ lastCall = NoCall
    /\ inputs \in PageInputSets
    /\ shoppingBlob = AbsentBlob
    /\ shoppingListDom = <<>>
    /\ listCall = NoListCall
    /\ RetryQuiet
    /\ TsxQuiet
    /\ ApiQuiet
    /\ DraftQuiet

PageNext ==
    \/ GenerateClick
    \/ GenerateCompletes
    \/ SaveClick
    \/ BookTabClick
    \/ CardClick
    \/ DeleteClick
    \/ AddToListClick
    \/ ShoppingItemClick
    \/ ClearListClick
    \/ ShoppingTabClick

PageSpec == PageInit /\ [][PageNext]_vars

(***************************************************************************)
(* Part VI, properties.  A step that flips listCall.tick is a click of the *)
(* shopping list; a step that does not and whose lastCall' names a save or *)
(* a remove is a click on the save button or on a delete button.           *)
(***************************************************************************)

RecipeSaveStep == listCall' = listCall /\ lastCall'.op = "save"

RecipeRemoveStep == listCall' = listCall /\ lastCall'.op = "remove"

ShoppingWriteStep == listCall'.tick # listCall.tick /\ listCall'.wrote

\* the badge shows the number of stored recipes, and is hidden when it is 0
BadgeShowsCount(b, recipes) ==
    /\ b.hidden = (Len(recipes) = 0)
    /\ Len(recipes) > 0 => b.text = ToString(Len(recipes))

C26_EveryWriteIsOneMutationOfTheStored ==
    [][/\ IF RecipeSaveStep /\ lastCall'.wrote
          THEN LET r == lastCall'.arg IN
               IF \E k \in 1..Len(Saved) : Saved[k].recipeName = r.recipeName
               THEN /\ Len(Saved') = Len(Saved)
                    /\ \E j \in 1..Len(Saved) :
                          /\ Saved[j].recipeName = r.recipeName
                          /\ Saved' = [Saved EXCEPT ![j] = r]
               ELSE Saved' = Append(Saved, r)
          ELSE IF RecipeRemoveStep
          THEN Saved' = SelectSeq(Saved,
                           LAMBDA sr : ~NameEqualsIgnoringCase(
                                           sr.recipeName,
                                           lastCall'.arg.recipeName))
          ELSE Saved' = Saved
       /\ IF ShoppingWriteStep
          THEN CASE listCall'.op = "add" ->
                      /\ Len(ShoppingList') >= Len(ShoppingList)
                      /\ SubSeq(ShoppingList', 1, Len(ShoppingList))
                            = ShoppingList
                 [] listCall'.op = "toggle" ->
                      \E j \in 1..Len(ShoppingList) :
                          /\ ShoppingList[j].id = listCall'.id
                          /\ ShoppingList' =
                                [ShoppingList EXCEPT ![j].completed = ~@]
                 [] listCall'.op = "clear" -> ShoppingList' = <<>>
          ELSE ShoppingList' = ShoppingList
       /\ pending' # pending
          => /\ savedBlob' = savedBlob
             /\ shoppingBlob' = shoppingBlob]_vars

\* while an AI request is in flight a second recipe has been saved after
\* the first, and the shopping list holds the two ingredients
C26_Witness ==
    /\ pending = 1
    /\ lastCall.op = "save"
    /\ lastCall.wrote
    /\ Len(Saved) = 2
    /\ Saved[2] = lastCall.arg
    /\ Len(ShoppingList) = 2

(***************************************************************************)
(* Part VII.  The draft of the recipe form.                                *)
(*                                                                         *)
(* Both files keep the form's fields under the localStorage key            *)
(* 'recipeDraft'.  part_000 calls saveDraft on every input event of the    *)
(* four fields, index.tsx on beforeunload.  The fields are not state of    *)
(* the model: a handler that reads them draws their values.  A run loads   *)
(* one of the two files and starts with the draft an earlier session left, *)
(* or with none.                                                           *)
(***************************************************************************)

PromptPizza == <<"P", "i", "z", "z", "a">>
PromptPadded == <<" ", "P", "i", "z", "z", "a", " ">>
PromptBlank == <<" ">>

\* What the runs draw from: the values of the four form fields, the kinds
\* of reply of the AI service, the names it answers with.
DraftInputSets ==
    {[file |-> "part_000", names |-> {"Pasta"},
      replies |-> {"recipe", "empty", "malformed", "error", "rateLimited"},
      prompts |-> {<<>>, PromptBlank, PromptPizza, PromptPadded},
      difficulties |-> {"leicht", "mittel"},
      servingsTexts |-> {<<"2">>, <<"4">>},
      wishes |-> {"", "vegan"}],
     [file |-> "index.tsx", names |-> {"Pasta"},
      replies |-> {"recipe", "error"},
      prompts |-> {<<>>, PromptBlank, PromptPizza, PromptPadded},
      difficulties |-> {"leicht", "mittel"},
      servingsTexts |-> {<<>>, <<"4">>},
      wishes |-> {"", "vegan"}]}

SaveDraftUntrimmed(p, difficulty, servings, wishes) ==
    IF p # <<>>
    THEN [kind |-> "json", prompt |-> p, difficulty |-> difficulty,
          servings |-> servings, wishes |-> wishes]
    ELSE AbsentDraft

\* part_000 saveDraft: the item it leaves for the values of the four fields
SaveDraft(p, difficulty, servings, wishes) ==
    IF p # <<>> /\ Trim(p) # <<>>
    THEN [kind |-> "json", prompt |-> p, difficulty |-> difficulty,
          servings |-> servings, wishes |-> wishes]
    ELSE AbsentDraft

\* index.tsx saveDraft: the item it leaves for the values of the four fields
TsxSaveDraft(p, difficulty, servings, wishes) ==
    IF Trim(p) # <<>>
    THEN [kind |-> "json", prompt |-> p, difficulty |-> difficulty,
          servings |-> RequestedServings(servings), wishes |-> wishes]
    ELSE TsxAbsentDraft

\* The drafts an earlier session of each file may have left.
EarlierDrafts == {AbsentDraft, SaveDraft(PromptPizza, "leicht", <<"4">>, "")}
TsxEarlierDrafts ==
    {TsxAbsentDraft, TsxSaveDraft(PromptPizza, "leicht", <<"4">>, "")}

DraftInit ==
    /\ RestQuiet
    /\ inputs \in DraftInputSets
    /\ AppQuiet
    /\ tsxSavedBlob \in IF inputs.file = "index.tsx"
                        THEN {AbsentBlob, CorruptBlob} ELSE {AbsentBlob}
    /\ currentRecipe = NoTsxRecipe
    /\ originalRecipeForUpdate = NoTsxRecipe
    /\ card = "none"
    /\ saveBtnDisabled = FALSE
    /\ servingsCountSpan = Undef
    /\ ingredientsListUl = <<>>
    /\ savedModalOpen = FALSE
    /\ tsxBadge = [text |-> "", hidden |-> TRUE]
    /\ request = NoRequest
    /\ edits = 0
    /\ draftBlob \in IF inputs.file = "part_000"
                     THEN EarlierDrafts ELSE {AbsentDraft}
    /\ draftNotificationHidden = (draftBlob = AbsentDraft)
    /\ tsxDraftBlob \in IF inputs.file = "index.tsx"
                        THEN TsxEarlierDrafts ELSE {TsxAbsentDraft}
    /\ tsxDraftNotificationHidden = (tsxDraftBlob = TsxAbsentDraft)
    /\ draftCall = NoDraftCall
    /\ RetryQuiet
    /\ ListQuiet
    /\ ApiQuiet

\* What the draft handlers of part_000 leave alone, and those of index.tsx.
outsideDraft ==
    <<appVars, retryVars, tsxVars, listVars, apiVars, tsxDraftVars,
      restVars>>
outsideTsxDraft ==
    <<appVars, retryVars, tsxVars, listVars, apiVars, draftVars,
      restVars>>

\* part_000: an 'input' event on the prompt or wishes field or a 'change'
\* event on the difficulty select: saveDraft() with the fields as the
\* handler finds them (Part IX has the 'input' event of the servings field)
SaveDraftCall ==
    /\ \E p \in inputs.prompts, difficulty \in inputs.difficulties,
          servings \in inputs.servingsTexts, wishes \in inputs.wishes :
          /\ draftBlob' = SaveDraft(p, difficulty, servings, wishes)
          /\ draftCall' = [NoDraftCall EXCEPT
                              !.file = "part_000", !.op = "saveDraft",
                              !.prompt = p, !.difficulty = difficulty,
                              !.servings = servings, !.wishes = wishes]
    /\ UNCHANGED <<draftNotificationHidden, outsideDraft>>

\* part_000: restore-draft-btn click (the button is in the notification)
RestoreDraftClick ==
    /\ ~draftNotificationHidden
    /\ draftNotificationHidden' = TRUE
    /\ draftCall' = [NoDraftCall EXCEPT !.file = "part_000", !.op = "restore"]
    /\ UNCHANGED <<draftBlob, outsideDraft>>

\* part_000: dismiss-draft-btn click: clearDraft
DismissDraftClick ==
    /\ ~draftNotificationHidden
    /\ draftBlob' = AbsentDraft
    /\ draftNotificationHidden' = TRUE
    /\ draftCall' = [NoDraftCall EXCEPT !.file = "part_000", !.op = "dismiss"]
    /\ UNCHANGED outsideDraft

\* index.tsx: beforeunload (it also fires for a navigation that does not
\* leave the page): saveDraft
TsxBeforeUnload ==
    /\ \E p \in inputs.prompts, difficulty \in inputs.difficulties,
          servings \in inputs.servingsTexts, wishes \in inputs.wishes :
          /\ tsxDraftBlob' = TsxSaveDraft(p, difficulty, servings, wishes)
          /\ draftCall' = [NoDraftCall EXCEPT
                              !.file = "index.tsx", !.op = "saveDraft",
                              !.prompt = p, !.difficulty = difficulty,
                              !.servings = servings, !.wishes = wishes]
    /\ UNCHANGED <<tsxDraftNotificationHidden, outsideTsxDraft>>

\* index.tsx: restore-draft-btn click; checkForDraft registers the handler
\* when it shows the notification
TsxRestoreDraftClick ==
    /\ ~tsxDraftNotificationHidden
    /\ tsxDraftNotificationHidden' = TRUE
    /\ draftCall' = [NoDraftCall EXCEPT !.file = "index.tsx", !.op = "restore"]
    /\ UNCHANGED <<tsxDraftBlob, outsideTsxDraft>>

\* index.tsx: dismiss-draft-btn click
TsxDismissDraftClick ==
    /\ ~tsxDraftNotificationHidden
    /\ tsxDraftBlob' = TsxAbsentDraft
    /\ tsxDraftNotificationHidden' = TRUE
    /\ draftCall' = [NoDraftCall EXCEPT !.file = "index.tsx", !.op = "dismiss"]
    /\ UNCHANGED outsideTsxDraft

DraftNext ==
    \/ /\ inputs.file = "part_000"
       /\ \/ SaveDraftCall
          \/ RestoreDraftClick
          \/ DismissDraftClick
          \/ GenerateClick
          \/ GenerateCompletes
    \/ /\ inputs.file = "index.tsx"
       /\ \/ TsxBeforeUnload
          \/ TsxRestoreDraftClick
          \/ TsxDismissDraftClick
          \/ TsxGenerateSubmit
          \/ TsxGenerateResolves
          \/ TsxGenerateRejects

DraftSpec == DraftInit /\ [][DraftNext]_vars

(***************************************************************************)
(* Part VII, properties.  Every step of DraftSpec sets draftCall: it names *)
(* the handler that ran and what it read or was answered.                  *)
(***************************************************************************)

\* the stored draft of the file the run has loaded, as the four fields
Draft ==
    IF inputs.file = "part_000" THEN draftBlob ELSE tsxDraftBlob

DraftPresent == Draft.kind = "json"

\* C18: saveDraft stores the record of the four fields when the prompt is
\* not empty after trimming (the prompt as it is in the field, and in
\* index.tsx the servings as a positive number), and removes the item
\* otherwise; so a stored draft always has a prompt that is not empty after
\* trimming.
C18_DraftStoredIffPromptNotBlank ==
    /\ [](DraftPresent => Trim(Draft.prompt) # <<>>)
    /\ [][draftCall'.op = "saveDraft" =>
            IF Trim(draftCall'.prompt) # <<>>
            THEN /\ DraftPresent'
                 /\ Draft'.prompt = draftCall'.prompt
                 /\ Draft'.difficulty = draftCall'.difficulty
                 /\ Draft'.wishes = draftCall'.wishes
                 /\ IF inputs.file = "part_000"
                    THEN Draft'.servings = draftCall'.servings
                    ELSE Draft'.servings >= 1
            ELSE ~DraftPresent']_vars

\* part_000: saveDraft has replaced the draft of an earlier session by one
\* with a padded prompt
C18_Witness ==
    /\ draftCall.file = "part_000"
    /\ draftCall.op = "saveDraft"
    /\ draftBlob = [kind |-> "json", prompt |-> PromptPadded,
                    difficulty |-> "mittel", servings |-> <<"2">>,
                    wishes |-> "vegan"]
    /\ ~draftNotificationHidden

\* C19: after a generation whose reply was a recipe, and after a click on
\* the dismiss button, no draft is stored; a generation that gave null
\* leaves the stored draft as it was.
C19_DraftClearedOnSuccessKeptOnFailure ==
    [][/\ (draftCall'.op = "generate" /\ draftCall'.reply = "recipe")
          => ~DraftPresent'
       /\ draftCall'.op = "dismiss" => ~DraftPresent'
       /\ (draftCall'.op = "generate" /\ draftCall'.ret = "null")
          => Draft' = Draft]_vars

\* C20: for a reply without text and for a reply that is not JSON, callChef
\* returns null, so the generate handler leaves the displayed recipe and the
\* stored draft as they were.
C20_BadReplyYieldsNull ==
    [][(/\ draftCall'.file = "part_000"
        /\ draftCall'.op = "generate"
        /\ draftCall'.reply \in {"empty", "malformed"})
       => /\ draftCall'.ret = "null"
          /\ currentDisplayedRecipe' = currentDisplayedRecipe
          /\ draftBlob' = draftBlob]_vars

\* C30: callChef never raises to its caller.  When the wrapped operation
\* fails with an error that is no rate limit, with rate-limit errors on
\* every attempt, or with a reply that JSON.parse rejects, callChef
\* resolves to null after it has logged one AI_EXCEPTION entry and shown
\* one error toast; the generate handler calls stopLoading after every
\* request, so the loader is hidden when a request has completed.
C30_CallChefNeverRaises ==
    [][(/\ draftCall'.file = "part_000"
        /\ draftCall'.op = "generate")
       => /\ loaderHidden'
          /\ draftCall'.ret \in {"null", "object", "recipe"}
          /\ draftCall'.reply \in {"error", "rateLimited", "malformed"}
             => /\ draftCall'.ret = "null"
                /\ draftCall'.logged = <<"AI_EXCEPTION">>
                /\ draftCall'.toasts = <<ToastChefError>>]_vars

\* a request whose reply was not JSON has completed: null, one log entry,
\* one toast, the loader hidden, the draft still stored
C30_Witness ==
    /\ draftCall.file = "part_000"
    /\ draftCall.op = "generate"
    /\ draftCall.reply = "malformed"
    /\ draftCall.ret = "null"
    /\ draftCall.logged = <<"AI_EXCEPTION">>
    /\ draftCall.toasts = <<ToastChefError>>
    /\ loaderHidden
    /\ pending = 0
    /\ DraftPresent

(***************************************************************************)
(* Part VIII.  scaleIngredientLine as a function of its three arguments:   *)
(* the one of part_000, which rewrites every number of the line, and the   *)
(* one of index.tsx (Part III), which rewrites a leading amount.           *)
(***************************************************************************)

\* The largest serving count a call is made with.
MaxScaleServings == 4

Line1Komma5kgMehl == <<"1", ",", "5", "k", "g", " ", "M", "e", "h", "l">>
Line0Punkt5lMilch == <<"0", ".", "5", " ", "l", " ", "M", "i", "l", "c", "h">>
Line0Punkt25lSahne ==
    <<"0", ".", "2", "5", " ", "l", " ", "S", "a", "h", "n", "e">>
Line2Zu1 == <<"2", ":", "1">>
Line1Komma5Komma2 == <<"1", ",", "5", ",", "2">>
Line0Komma1gSafran ==
    <<"0", ",", "1", " ", "g", " ", "S", "a", "f", "r", "a", "n">>
Line1Punkt2Eier == <<"1", ".", " ", "2", " ", "E", "i", "e", "r">>

\* The lines a call is made with.
ScaleLines ==
    {Line500gNudeln, Line1Komma5kgMehl, Line0Punkt5lMilch, Line0Punkt25lSahne,
     Line2Zu1, Line1Komma5Komma2, Line0Komma1gSafran, Line1Punkt2Eier,
     Line2Eier, LineSalz}

\* The serving counts a call is made with: undefined, 0 and the positive ones.
ScaleServings == {Undef} \cup 0..MaxScaleServings

NumberMatchLenOfRun(s) == NumberRunLen(s)

\* /(\d+(?:[.,]\d+)?)/ tried at the start of s: the length of the match, 0
\* when s does not start with a digit
NumberMatchLen(s) ==
    LET n1 == DigitPrefixLen(s)
        rest == SubSeq(s, n1 + 1, Len(s))
        n2 == IF rest # <<>> /\ Head(rest) \in {".", ","}
              THEN DigitPrefixLen(Tail(rest))
              ELSE 0
    IN  IF n1 = 0 THEN 0 ELSE IF n2 > 0 THEN n1 + 1 + n2 ELSE n1

RECURSIVE GCD(_, _)
GCD(a, b) == IF b = 0 THEN a ELSE GCD(b, a % b)

RECURSIVE IsPowerOfTwo(_)
IsPowerOfTwo(n) == n = 1 \/ (n > 1 /\ n % 2 = 0 /\ IsPowerOfTwo(n \div 2))

\* num / den is a binary fraction, which a double holds exactly
IsBinaryFraction(num, den) == IsPowerOfTwo(den \div GCD(num, den))

ScaledTenthsCut(num, fromS, toS) ==
    {(num.num * 10 * toS) \div (num.den * fromS)}

\* (num * factor).toFixed(1) with factor = toS / fromS, in tenths.  toFixed
\* takes the tenth nearest to the double, the larger one on a tie.  Where
\* the exact product lies between two tenths off their middle, the double
\* rounds as the exact product does.  Where it lies on the middle, the
\* double is the exact product when the number and the factor are binary
\* fractions; when they are not, the double lies a rounding error beside
\* the middle and either tenth can be the result.
ScaledTenths(num, fromS, toS) ==
    LET p == num.num * 10 * toS
        q == num.den * fromS
        below == p \div q
        twiceRest == 2 * (p % q)
    IN  IF twiceRest < q THEN {below}
        ELSE IF twiceRest > q THEN {below + 1}
        ELSE IF /\ IsBinaryFraction(num.num, num.den)
                /\ IsBinaryFraction(toS, fromS)
             THEN {below + 1}
             ELSE {below, below + 1}

\* scaled.toFixed(1).replace(/\.0$/, ""), then the dot made a comma when the
\* match had one
FormatTenths(tenths, hasComma) ==
    LET whole == NatToString(tenths \div 10)
        frac == tenths % 10
    IN  IF frac = 0
        THEN whole
        ELSE whole \o <<IF hasComma THEN "," ELSE ".">> \o NatToString(frac)

\* the callback of line.replace: what one match is replaced by
ReplaceMatch(match, fromS, toS) ==
    LET hasComma == \E k \in 1..Len(match) : match[k] = ","
        num == ParseFloat(ReplaceFirst(match, ",", "."))
    IN  IF num.nan
        THEN {match}
        ELSE {FormatTenths(t, hasComma) : t \in ScaledTenths(num, fromS, toS)}

RECURSIVE ReplaceNumbers(_, _, _)
\* line.replace(/(\d+(?:[.,]\d+)?)/g, callback): the matches are taken from
\* left to right, each as long as it can be, and what lies between them is
\* copied
ReplaceNumbers(line, fromS, toS) ==
    IF line = <<>>
    THEN {<<>>}
    ELSE LET n == NumberMatchLen(line) IN
         IF n = 0
         THEN {<<Head(line)>> \o r : r \in ReplaceNumbers(Tail(line), fromS, toS)}
         ELSE {a \o r : a \in ReplaceMatch(SubSeq(line, 1, n), fromS, toS),
                        r \in ReplaceNumbers(SubSeq(line, n + 1, Len(line)),
                                             fromS, toS)}

AppScaleIngredientLineAlwaysReplaces(line, fromS, toS) ==
    IF NoServings(fromS) \/ NoServings(toS)
    THEN {line}
    ELSE ReplaceNumbers(line, fromS, toS)

\* scaleIngredientLine of part_000: the texts a call can return
AppScaleIngredientLine(line, fromS, toS) ==
    IF NoServings(fromS) \/ NoServings(toS) \/ fromS = toS
    THEN {line}
    ELSE ReplaceNumbers(line, fromS, toS)

ScaleInit ==
    /\ CardQuiet
    /\ servingsCall = NoServingsCall
    /\ scaleCall \in {[NoScaleCall EXCEPT !.line = l, !.fromS = f, !.toS = t] :
                        l \in ScaleLines, f \in ScaleServings,
                        t \in ScaleServings}
    /\ inputs = NoInputs
    /\ AppQuiet
    /\ RetryQuiet
    /\ TsxQuiet
    /\ ListQuiet
    /\ ApiQuiet
    /\ DraftQuiet

outsideScale ==
    <<retryVars, appVars, tsxVars, listVars, apiVars, draftVars, tsxDraftVars,
      draftCall, cardVars, servingsCall>>

\* scaleIngredientLine(line, fromS, toS) of part_000
AppScaleCall ==
    /\ "scale" \notin scaleCall.done
    /\ \E out \in AppScaleIngredientLine(scaleCall.line, scaleCall.fromS,
                                         scaleCall.toS) :
          scaleCall' = [scaleCall EXCEPT !.done = @ \cup {"scale"},
                                         !.out = out]
    /\ UNCHANGED outsideScale

\* scaleIngredientLine of part_000 on what the first call returned, with the
\* serving counts exchanged
AppScaleBackCall ==
    /\ "scale" \in scaleCall.done
    /\ "back" \notin scaleCall.done
    /\ \E back \in AppScaleIngredientLine(scaleCall.out, scaleCall.toS,
                                          scaleCall.fromS) :
          scaleCall' = [scaleCall EXCEPT !.done = @ \cup {"back"},
                                         !.back = back]
    /\ UNCHANGED outsideScale

\* scaleIngredientLine(line, originalServings, newServings) of index.tsx,
\* which updateIngredientQuantities calls with positive serving counts
TsxScaleCall ==
    /\ "tsx" \notin scaleCall.done
    /\ scaleCall.fromS >= 1
    /\ scaleCall.toS >= 1
    /\ scaleCall' =
          [scaleCall EXCEPT !.done = @ \cup {"tsx"},
                            !.tsxOut = ScaleIngredientLine(scaleCall.line,
                                                           scaleCall.fromS,
                                                           scaleCall.toS)]
    /\ UNCHANGED outsideScale

ScaleNext ==
    \/ AppScaleCall
    \/ AppScaleBackCall
    \/ TsxScaleCall

ScaleSpec == ScaleInit /\ [][ScaleNext]_vars

(***************************************************************************)
(* Part VIII, properties.  A numeral is what the claims call a numeric     *)
(* substring: digits, or digits, one of . and , and digits, taken from     *)
(* left to right and as long as can be.                                    *)
(***************************************************************************)

\* the length of the numeral s starts with, 0 when it starts with none
NumeralLen(s) ==
    LET w == DigitPrefixLen(s) IN
    IF w = 0
    THEN 0
    ELSE IF Len(s) >= w + 2 /\ s[w + 1] \in {".", ","} /\ IsDigit(s[w + 2])
         THEN w + 1 + DigitPrefixLen(SubSeq(s, w + 2, Len(s)))
         ELSE w

IsNumeral(r) == r # <<>> /\ NumeralLen(r) = Len(r)

NumeralValue(r) == ParseFloat(ReplaceFirst(r, ",", "."))

HasChar(s, c) == \E k \in 1..Len(s) : s[k] = c

RECURSIVE CountNumerals(_)
CountNumerals(s) ==
    IF s = <<>>
    THEN 0
    ELSE LET n == NumeralLen(s) IN
         IF n = 0
         THEN CountNumerals(Tail(s))
         ELSE 1 + CountNumerals(SubSeq(s, n + 1, Len(s)))

Abs(x) == IF x < 0 THEN -x ELSE x

\* r is the value of m times toS / fromS rounded to one decimal, written
\* without a trailing .0
IsRoundedTo(m, r, fromS, toS) ==
    LET v == NumeralValue(m)
        w == NumeralValue(r)
        d == DigitPrefixLen(r)
    IN  /\ IsNumeral(r)
        /\ (d = 1 \/ r[1] # "0")
        /\ \/ Len(r) = d
           \/ Len(r) = d + 2 /\ r[d + 2] # "0"
        /\ 20 * Abs(w.num * v.den * fromS - v.num * toS * w.den)
              <= w.den * v.den * fromS

\* r is written with the decimal separator m is written with
KeepsSeparator(m, r) ==
    /\ IsNumeral(r)
    /\ HasChar(m, ",") => ~HasChar(r, ".")
    /\ HasChar(m, ".") => ~HasChar(r, ",")

\* r is m up to what rounding to one decimal adds on the way from a to b
\* servings and back: a twentieth times a / b on the way there and a
\* twentieth on the way back
IsWithinDrift(m, r, a, b) ==
    LET v == NumeralValue(m)
        w == NumeralValue(r)
    IN  /\ IsNumeral(r)
        /\ 20 * b * Abs(w.num * v.den - v.num * w.den)
              <= (a + b) * w.den * v.den

Allowed(rule, m, r, a, b) ==
    CASE rule = "any" -> IsNumeral(r)
      [] rule = "rounded" -> IsRoundedTo(m, r, a, b)
      [] rule = "separator" -> KeepsSeparator(m, r)
      [] rule = "drift" -> IsWithinDrift(m, r, a, b)

RECURSIVE Rewritten(_, _, _, _, _)
\* out is line with every numeral replaced by a text the rule allows for
\* it, and every other character copied in its place
Rewritten(line, out, rule, a, b) ==
    IF line = <<>>
    THEN out = <<>>
    ELSE LET n == NumeralLen(line) IN
         IF n = 0
         THEN /\ out # <<>>
              /\ Head(out) = Head(line)
              /\ Rewritten(Tail(line), Tail(out), rule, a, b)
         ELSE \E k \in 1..Len(out) :
                 /\ Allowed(rule, SubSeq(line, 1, n), SubSeq(out, 1, k), a, b)
                 /\ Rewritten(SubSeq(line, n + 1, Len(line)),
                              SubSeq(out, k + 1, Len(out)), rule, a, b)

RECURSIVE NumeralsStandApart(_)
\* no numeral of s is directly followed by a . or , and a digit
NumeralsStandApart(s) ==
    IF s = <<>>
    THEN TRUE
    ELSE LET n == NumeralLen(s)
             rest == SubSeq(s, n + 1, Len(s))
         IN  IF n = 0
             THEN NumeralsStandApart(Tail(s))
             ELSE /\ ~(/\ Len(rest) >= 2
                       /\ rest[1] \in {".", ","}
                       /\ IsDigit(rest[2]))
                  /\ NumeralsStandApart(rest)

Scaled == "scale" \in scaleCall.done
ScaledBack == "back" \in scaleCall.done
TsxScaled == "tsx" \in scaleCall.done
DistinctPositive ==
    scaleCall.fromS >= 1 /\ scaleCall.toS >= 1 /\ scaleCall.fromS # scaleCall.toS

\* C21: scaleIngredientLine of part_000 returns the line it was given when
\* fromS is undefined or 0, when toS is undefined or 0, and when fromS
\* equals toS.
C21_NothingToScaleReturnsLine ==
    (/\ Scaled
     /\ \/ scaleCall.fromS \in {Undef, 0}
        \/ scaleCall.toS \in {Undef, 0}
        \/ scaleCall.fromS = scaleCall.toS)
    => scaleCall.out = scaleCall.line

\* equal serving counts and a number that is not written as toFixed(1)
\* writes it
C21_Witness ==
    /\ Scaled
    /\ scaleCall.line = Line0Punkt25lSahne
    /\ scaleCall.fromS = 2
    /\ scaleCall.toS = 2
    /\ scaleCall.out = Line0Punkt25lSahne

\* C22: for distinct positive serving counts scaleIngredientLine replaces
\* every numeral of the line, wherever it stands, by its value times
\* toS / fromS rounded to one decimal and written without a trailing .0,
\* however small the result; so ("500g Nudeln", 4, 2) gives "250g Nudeln"
\* and ("1,5kg Mehl", 2, 4) gives "3kg Mehl".  Stated of both files.
C22_EveryNumeralScaled ==
    /\ (Scaled /\ DistinctPositive)
       => Rewritten(scaleCall.line, scaleCall.out, "rounded",
                    scaleCall.fromS, scaleCall.toS)
    /\ (TsxScaled /\ DistinctPositive)
       => Rewritten(scaleCall.line, scaleCall.tsxOut, "rounded",
                    scaleCall.fromS, scaleCall.toS)

\* C23: a numeral written with a comma is replaced by one that has no dot,
\* and a numeral written with a dot by one that has no comma.  Stated of
\* both files.
C23_SeparatorKept ==
    /\ (Scaled /\ DistinctPositive)
       => Rewritten(scaleCall.line, scaleCall.out, "separator",
                    scaleCall.fromS, scaleCall.toS)
    /\ (TsxScaled /\ DistinctPositive)
       => Rewritten(scaleCall.line, scaleCall.tsxOut, "separator",
                    scaleCall.fromS, scaleCall.toS)

\* C24 as stated: for every line and positive a and b, scaling from a to b
\* and the result from b to a gives the line with every numeral replaced
\* by one of the same value up to the drift of rounding to one decimal,
\* and every other character in its place.
C24_RoundTripEveryLine ==
    (ScaledBack /\ scaleCall.fromS >= 1 /\ scaleCall.toS >= 1)
    => Rewritten(scaleCall.line, scaleCall.back, "drift",
                 scaleCall.fromS, scaleCall.toS)

\* C24, amended: the same for a line in which no numeral is directly
\* followed by a . or , and a digit; the drift is at most (1 + a / b) / 20.
C24_RoundTripWhereNumeralsStandApart ==
    (/\ ScaledBack
     /\ scaleCall.fromS >= 1
     /\ scaleCall.toS >= 1
     /\ NumeralsStandApart(scaleCall.line))
    => Rewritten(scaleCall.line, scaleCall.back, "drift",
                 scaleCall.fromS, scaleCall.toS)

\* 500 from 3 servings to 1 is 166.7, and back it is 500.1
C24_Witness ==
    /\ ScaledBack
    /\ scaleCall.line = Line500gNudeln
    /\ scaleCall.fromS = 3
    /\ scaleCall.toS = 1
    /\ scaleCall.back =
          <<"5", "0", "0", ".", "1", "g", " ", "N", "u", "d", "e", "l", "n">>

\* C25 as stated: for every line the result is the line with its numerals
\* replaced by numerals and every other character in its place, it has as
\* many numerals as the line, and a line without a digit is returned as
\* it is.
C25_OnlyNumeralsChangeEveryLine ==
    Scaled
    => /\ Rewritten(scaleCall.line, scaleCall.out, "any", 1, 1)
       /\ CountNumerals(scaleCall.out) = CountNumerals(scaleCall.line)
       /\ CountNumerals(scaleCall.line) = 0 => scaleCall.out = scaleCall.line

\* C25, amended: the same for a line in which no numeral is directly
\* followed by a . or , and a digit.
C25_OnlyNumeralsChangeWhereTheyStandApart ==
    (Scaled /\ NumeralsStandApart(scaleCall.line))
    => /\ Rewritten(scaleCall.line, scaleCall.out, "any", 1, 1)
       /\ CountNumerals(scaleCall.out) = CountNumerals(scaleCall.line)
       /\ CountNumerals(scaleCall.line) = 0 => scaleCall.out = scaleCall.line

\* the number of a list item and an amount, both scaled, the dot and the
\* blanks between them kept
C25_Witness ==
    /\ Scaled
    /\ scaleCall.line = Line1Punkt2Eier
    /\ scaleCall.fromS = 2
    /\ scaleCall.toS = 3
    /\ scaleCall.out =
          <<"1", ".", "5", ".", " ", "3", " ", "E", "i", "e", "r">>
(***************************************************************************)
(* Part IX.  The serving count of the recipe shown.  part_000 rescales the *)
(* card on an 'input' event of the servings field of the form; index.tsx   *)
(* has a - and a + button on the card.  Both pages start on a cookbook     *)
(* that holds a recipe of an earlier session.                              *)
(***************************************************************************)

\* A recipe part_000 stored in an earlier session.
EarlierRecipe ==
    [id |-> "k3j9x0a1b", recipeName |-> "Pasta", servings |-> 2,
     ingredients |-> <<Line0Punkt5lMilch, Line2Eier, LineSalz>>,
     createdAt |-> 1000]

\* The recipes index.tsx stored in an earlier session: one with a decimal
\* point in a quantity, one with a decimal comma.
TsxEarlierRecipes ==
    <<[recipeName |-> "Pasta", servings |-> 2,
       ingredients |-> <<Line0Punkt5lMilch, Line2Eier>>, madeFor |-> 2],
      [recipeName |-> "Suppe", servings |-> 2,
       ingredients |-> <<Line1Komma5kgMehl, LineSalz>>, madeFor |-> 2]>>

\* What the user may type into servings-input: nothing, a letter, a count
\* below zero, and the counts from 0 on.
ServingsTexts ==
    {<<>>, <<"a">>, <<"-", "1">>} \cup {NatToString(n) : n \in 0..MaxServings}

ServingsInputSets ==
    {[file |-> "part_000", names |-> {"Pasta"},
      replies |-> {"recipe", "empty", "error"},
      prompts |-> {PromptPizza}, difficulties |-> {"leicht"},
      servingsTexts |-> ServingsTexts, wishes |-> {""}],
     [file |-> "index.tsx", names |-> {"Pasta", "Suppe"}]}

\* parseInt on the text of the field: an optional sign and the longest run
\* of digits after it; NaN when there is no digit
ParseInt(value) ==
    LET negative == value # <<>> /\ Head(value) = "-"
        body == IF negative THEN Tail(value) ELSE value
        n == DigitPrefixLen(body)
    IN  IF n = 0
        THEN NaN
        ELSE [nan |-> FALSE,
              num |-> IF negative THEN 0 - DigitsValue(SubSeq(body, 1, n))
                                  ELSE DigitsValue(SubSeq(body, 1, n)),
              den |-> 1]

RECURSIVE ScaledLists(_, _, _)
\* ingredients.map(ing => scaleIngredientLine(ing, fromS, toS)): the lists
\* it may yield
ScaledLists(ingredients, fromS, toS) ==
    IF ingredients = <<>>
    THEN {<<>>}
    ELSE {<<first>> \o others :
            first \in AppScaleIngredientLine(Head(ingredients), fromS, toS),
            others \in ScaledLists(Tail(ingredients), fromS, toS)}

\* updateIngredientQuantities() of part_000 reaches the map over the
\* ingredients: a recipe is displayed, active-ing-list is there, and the
\* field holds a count above 0
Rescales(value) ==
    /\ currentDisplayedRecipe # NoRecipe
    /\ recipeOutput = "card"
    /\ ~ParseInt(value).nan
    /\ ParseInt(value).num > 0

ServingsInit ==
    /\ ScaleQuiet
    /\ CardQuiet
    /\ servingsCall = NoServingsCall
    /\ inputs \in ServingsInputSets
    /\ savedBlob = IF inputs.file = "part_000"
                   THEN JsonBlob(<<EarlierRecipe>>) ELSE AbsentBlob
    /\ savedListDom = <<>>
    /\ currentDisplayedRecipe = NoRecipe
    /\ badge = SavedCountBadge(savedBlob)
    /\ pending = 0
    /\ loaderHidden = TRUE
    /\ lastCall = NoCall
    /\ tsxSavedBlob = IF inputs.file = "index.tsx"
                      THEN JsonBlob(TsxEarlierRecipes) ELSE AbsentBlob
    /\ currentRecipe = NoTsxRecipe
    /\ originalRecipeForUpdate = NoTsxRecipe
    /\ card = "none"
    /\ saveBtnDisabled = FALSE
    /\ servingsCountSpan = Undef
    /\ ingredientsListUl = <<>>
    /\ savedModalOpen = FALSE
    /\ tsxBadge = TsxSavedCount(tsxSavedBlob, [text |-> "", hidden |-> TRUE])
    /\ request = NoRequest
    /\ edits = 0
    /\ RetryQuiet
    /\ ListQuiet
    /\ ApiQuiet
    /\ DraftQuiet

\* part_000: an 'input' event of servings-input that leaves the field with
\* value: updateIngredientQuantities() and then saveDraft().  The map over
\* currentDisplayedRecipe.ingredients throws when the recipe displayed is
\* the empty object, and that ends the handler.
ServingsInput ==
    /\ \E value \in inputs.servingsTexts, p \in inputs.prompts,
          difficulty \in inputs.difficulties, wishes \in inputs.wishes :
          LET throws == Rescales(value) /\ currentDisplayedRecipe = EmptyObject
          IN  /\ servingsCall' = [value |-> value,
                                  tick |-> 1 - servingsCall.tick]
              /\ IF Rescales(value) /\ ~throws
                 THEN /\ \E scaled \in
                            ScaledLists(currentDisplayedRecipe.ingredients,
                                        currentDisplayedRecipe.servings,
                                        ParseInt(value).num) :
                            activeIngList' = scaled
                      /\ servingsDisplay' = ParseInt(value).num
                      /\ UNCHANGED recipeOutput
                 ELSE UNCHANGED cardVars
              /\ IF throws
                 THEN /\ draftCall' = [NoDraftCall EXCEPT
                                          !.file = "part_000",
                                          !.op = "servingsInput",
                                          !.servings = value,
                                          !.ret = "thrown"]
                      /\ UNCHANGED draftBlob
                 ELSE /\ draftBlob' = SaveDraft(p, difficulty, value, wishes)
                      /\ draftCall' = [NoDraftCall EXCEPT
                                          !.file = "part_000",
                                          !.op = "saveDraft",
                                          !.prompt = p,
                                          !.difficulty = difficulty,
                                          !.servings = value,
                                          !.wishes = wishes]
    /\ UNCHANGED <<draftNotificationHidden, appVars, retryVars, tsxVars,
                   listVars, apiVars, tsxDraftVars, scaleVars>>

ServingsNext ==
    \/ /\ inputs.file = "part_000"
       /\ \/ BookTabClick
          \/ CardClick
          \/ GenerateClick
          \/ GenerateCompletes
          \/ ServingsInput
    \/ /\ inputs.file = "index.tsx"
       /\ \/ ViewSavedClick
          \/ CloseModalClick
          \/ ViewBtnClick
          \/ IncreaseServings
          \/ DecreaseServings

ServingsSpec == ServingsInit /\ [][ServingsNext]_vars

(***************************************************************************)
(* Part IX, properties.  A step that changes servingsCall is an 'input'    *)
(* event of the servings field of part_000; a step that changes            *)
(* servings-count on a card of index.tsx that stays is a click on - or +.  *)
(***************************************************************************)

\* the count the step was given is a number above 0
ValidServings == ~ParseInt(servingsCall'.value).nan
                 /\ ParseInt(servingsCall'.value).num > 0

\* part_000: the card after a valid input shows the count and, line by
\* line, the baseline scaled to it; after an invalid one it is what it was
AppShowsBaselineScaled ==
    (servingsCall' # servingsCall /\ recipeOutput = "card") =>
        IF ValidServings
        THEN LET N == ParseInt(servingsCall'.value).num
                 baseline == currentDisplayedRecipe
             IN  /\ servingsDisplay' = N
                 /\ activeIngList' \in ScaledLists(baseline.ingredients,
                                                  baseline.servings, N)
                 /\ N = baseline.servings =>
                        activeIngList' = baseline.ingredients
        ELSE /\ activeIngList' = activeIngList
             /\ servingsDisplay' = servingsDisplay

\* index.tsx: the card after a click on - or + shows, line by line, the
\* baseline scaled to the count shown
TsxShowsBaselineScaled ==
    (/\ card = "display"
     /\ card' = "display"
     /\ ~savedModalOpen
     /\ servingsCountSpan' # servingsCountSpan) =>
        LET N == servingsCountSpan'
            baseline == originalRecipeForUpdate
        IN  /\ N >= 1
            /\ ingredientsListUl' =
                  UpdateIngredientQuantities(baseline, N)
            /\ N = baseline.servings =>
                  ingredientsListUl' = baseline.ingredients

\* C27: the ingredient list shown is recomputed from the baseline of the
\* recipe, its ingredients and its servings as stored, never from the list
\* shown before: after a valid change of the serving count to N the card
\* shows N and every line is the baseline line scaled from the baseline
\* count to N, so that at the baseline count the baseline lines are shown;
\* an input that is no number or is not above 0 leaves the list and the
\* count shown as they were.
C27_ShownListIsBaselineScaled ==
    [][AppShowsBaselineScaled /\ TsxShowsBaselineScaled]_vars

=============================================================================
